---- MODULE Spec2Model ----
(***************************************************************************)
(* Alert lifecycle pipeline of realtime-alert-system: the Alert entity     *)
(* state machine, the Redis-stream event bus with its consumer loops and   *)
(* dead-letter processor, and the Alert Service lifecycle commands.        *)
(*                                                                         *)
(* The sub-systems share the module; each has its own specification:       *)
(*   SpecAlert   one Alert value driven by the entity's methods            *)
(*   SpecBus     streams, consumer groups, consumer loops, dead letters    *)
(*   SpecSvc     concurrent AlertService commands on one stored alert      *)
(*   SpecSvcSeq  the same commands run one after the other                 *)
(*   SpecStats   the same commands with a running clock (cache TTL)        *)
(*   SpecBreaker one circuit breaker and its concurrent callers            *)
(*   SpecHub     the WebSocket hub, its coordinator loop and two clients   *)
(*   SpecRetry   one Retries.Do call and the caller's cancellation scope   *)
(*   SpecDlq     concurrent dead-letter handlers and admin RetryEvent      *)
(*   SpecLife    Start and Stop of the workers, Unsubscribe, the loops     *)
(*   SpecCreateFair  AlertService.Create, its publication, the consumers   *)
(*   SpecPage    NewPagination, Offset and TotalPages on machine integers  *)
(*   SpecClient  one Client, its mutex, concurrent Send and Close          *)
(*   SpecRegistry  concurrent Get and GetWithConfig on the breaker map     *)
(*   SpecStream  the bus with producers calling PublishToStream            *)
(*   SpecEnvelope  the bus reading envelopes with missing fields           *)
(*   SpecDlqAdmin  SpecDlq with admin IgnoreEvent                          *)
(*   SpecDropFair  the hub with the pumps of each connection, fair         *)
(* SpecRetryFair and SpecLifeFair add the fairness of the steps to         *)
(* SpecRetry and SpecLife.                                                 *)
(***************************************************************************)
EXTENDS Integers, Sequences, FiniteSets, TLC

VARIABLES
    \* ---- entity ----
    alert,      \* the Alert value under test
    now,        \* the wall clock read by time.Now()
    lastOp,     \* the last entity method called: name, argument, result, alert before
    \* ---- event bus ----
    streams,    \* stream name -> append-only sequence of messages
    lastId,     \* subscribed stream -> index of the last entry delivered to its group (">")
    pel,        \* subscribed stream -> pending entries list (delivered, not yet XACKed)
    cons,       \* consumer loop -> its position in consume/readMessages/processMessage
    nextPub,    \* number of publications made so far
    hist,       \* per-publication history of handler invocations and appends
    msgLog,     \* stream -> per-entry history: processing outcome and number of XACKs
    kv,         \* cache keys failed_event:<id>
    failedIndex,\* cache key failed_events:index
    \* ---- alert service ----
    store,      \* the alerts row of the one alert id
    exists,     \* TRUE while that row is in the table
    others,     \* the rows inserted by Create: the calls that inserted them
    writes,     \* history: the time of each successful Store write, in order
    cache,      \* TRUE when key stats:alerts has been set and not deleted
    statsEntry, \* the value under stats:alerts and the time it expires
    proc,       \* service call -> its position in Acknowledge/Resolve
    svcLog,     \* history: Store updates, cache deletions, hub messages, bus events
    \* ---- circuit breaker ----
    cb,         \* the CircuitBreaker: config, state, failures, successes, lastFailure, halfOpenRequests
    cbCall,     \* caller -> its position in Execute: "idle", or "fn" while the wrapped function runs
    cbPre,      \* history: the breaker before the last step
    cbOp,       \* history: the last step (canExecute of an Execute, or recordResult)
    cbHist,     \* history: failure streak in closed, trial calls and successes in half-open
    \* ---- websocket hub ----
    hubClients, \* Hub.clients: the registered clients
    broadcast,  \* Hub.broadcast: the channel of messages waiting for the coordinator
    client,     \* client -> its send channel and its closed flag
    pump,       \* client -> position of its write pump
    hubLog,     \* history: Broadcast calls made, messages the coordinator handled
    clientLog,  \* history per client: Sends attempted, enqueued, written, how it was closed
    \* ---- retries ----
    rt,         \* the Retries.Do call: config, position, attempt, lastErr, returned error
    ctx,        \* ctx.Err() of the caller's scope
    rtLog,      \* history: what each invocation returned, sleeps completed, cancellations
    \* ---- dead-letter processor ----
    dlh,        \* dead-letter consumer -> its position in handleDeadLetter/addToIndex
    adm,        \* admin call -> its position in RetryEvent
    dlqLog,     \* history: deliveries, index writes, handler returns, last writer of a record
    \* ---- worker lifecycle ----
    stopCh,     \* RedisStreamBus.stopCh: "open" or "closed"
    wg,         \* RedisStreamBus.wg: the WaitGroup counter
    wctx,       \* worker -> its context: "live" or "cancelled"
    loop,       \* consumer loop -> "none", "running", "window" (a read window open), "exited"
    stopper,    \* the main goroutine's position in EventWorker.Stop / Unsubscribe
    panicked,   \* TRUE once the process has died of a panic
    lifeLog,    \* history: Stop calls returned, what they left, reads after the stop signal
    \* ---- pagination ----
    cli,        \* one Client with its mutex and the goroutines that call Send and Close on it
    conn,       \* client -> its connection: position of the read pump, whether the socket is open
    reg,        \* the breaker Registry: its map, its RWMutex, the Get calls in progress
    pg          \* the last NewPagination call: its inputs, the value made, Offset and TotalPages

alertVars == <<alert, now, lastOp>>
busVars   == <<streams, lastId, pel, cons, nextPub, hist, msgLog, kv, failedIndex>>
svcVars   == <<store, exists, others, writes, cache, statsEntry, proc, svcLog>>
cbVars    == <<cb, cbCall, cbPre, cbOp, cbHist>>
hubVars   == <<hubClients, broadcast, client, pump, hubLog, clientLog>>
retryVars == <<rt, ctx, rtLog>>
dlqVars   == <<dlh, adm, dlqLog>>
lifeVars  == <<stopCh, wg, wctx, loop, stopper, panicked, lifeLog>>
pageVars  == <<pg>>
clientVars == <<cli>>
regVars   == <<reg>>
connVars  == <<conn>>
vars      == <<alertVars, busVars, svcVars, cbVars, hubVars, retryVars, dlqVars, lifeVars,
               pageVars, clientVars, regVars, connVars>>

(***************************************************************************)
(* Bounds of the model.                                                    *)
(***************************************************************************)
MaxTime == 2        \* the clock runs 0..MaxTime
MaxPubs == 1        \* publications made by producers
RetryCap == 4       \* consumer loops stop republishing above this counter
MaxCalls == 2       \* service calls begun in one run
MaxCallers == 2     \* concurrent callers of one circuit breaker
MaxCfg == 2         \* MaxFailures and HalfOpenRequests of a breaker's Config: 1..MaxCfg
CfgTimeout == 1     \* Timeout of a breaker's Config, in clock ticks
MaxCbTime == 4      \* the breaker's clock runs 0..MaxCbTime
MaxBroadcasts == 257 \* Hub.Broadcast calls made in one run
MaxPending == 2     \* messages waiting in the Hub's broadcast channel
MaxLag == 2         \* backlog of the reading client below which callers broadcast
MaxRetryCfg == 3    \* largest MaxRetries of a retry configuration
MaxAdminCalls == 2  \* admin calls
MaxCaptures == 2    \* dead-letter entries delivered
MaxStops == 2       \* Stop calls made on one worker
MaxRegCalls == 2    \* concurrent Registry.Get / GetWithConfig calls
IntBits == 10       \* width of the machine word that stands for Go's int
MaxItems == 2       \* totalItems runs over 0..MaxItems page sizes (and one more item)

Users == {"u1", "u2"}
NoUser == "none"
NoTime == -1

(***************************************************************************)
(* Alert entity.                                                           *)
(***************************************************************************)
AlertStatusActive == "active"
AlertStatusAcknowledged == "acknowledged"
AlertStatusResolved == "resolved"
AlertStatusExpired == "expired"
AlertStatuses ==
    {AlertStatusActive, AlertStatusAcknowledged, AlertStatusResolved, AlertStatusExpired}

ErrNone == "ok"
ErrAlertAlreadyAcknowledged == "AlreadyAcknowledged"
ErrAlertAlreadyResolved == "AlreadyResolved"
ErrAlertNotActive == "NotActive"

MetaKeys == {"k1"}
MetaVals == {"v1", "v2"}
NoMeta == "absent"

\* NewAlert: Active status, empty metadata, no optional field set.
NewAlert(t) ==
    [status |-> AlertStatusActive,
     acknowledgedBy |-> NoUser, acknowledgedAt |-> NoTime,
     resolvedBy |-> NoUser, resolvedAt |-> NoTime,
     expiresAt |-> NoTime,
     metadata |-> [k \in MetaKeys |-> NoMeta],
     createdAt |-> t, updatedAt |-> t]

\* Timestamps.Touch
Touch(a, t) == [a EXCEPT !.updatedAt = t]

\* Variant of Acknowledge that forgets acknowledged_at.
AcknowledgeNoStamp(a, userID, t) ==
    IF a.status = AlertStatusResolved THEN [err |-> ErrAlertAlreadyResolved, alert |-> a]
    ELSE IF a.status = AlertStatusAcknowledged
        THEN [err |-> ErrAlertAlreadyAcknowledged, alert |-> a]
    ELSE IF a.status # AlertStatusActive THEN [err |-> ErrAlertNotActive, alert |-> a]
    ELSE [err |-> ErrNone,
          alert |-> Touch([a EXCEPT !.status = AlertStatusAcknowledged,
                                    !.acknowledgedBy = userID], t)]

\* Variant of Acknowledge without the acknowledged / not-active checks.
AcknowledgeAnyStatus(a, userID, t) ==
    IF a.status = AlertStatusResolved THEN [err |-> ErrAlertAlreadyResolved, alert |-> a]
    ELSE [err |-> ErrNone,
          alert |-> Touch([a EXCEPT !.status = AlertStatusAcknowledged,
                                    !.acknowledgedBy = userID,
                                    !.acknowledgedAt = t], t)]

\* Alert.Acknowledge
Acknowledge(a, userID, t) ==
    IF a.status = AlertStatusResolved THEN [err |-> ErrAlertAlreadyResolved, alert |-> a]
    ELSE IF a.status = AlertStatusAcknowledged
        THEN [err |-> ErrAlertAlreadyAcknowledged, alert |-> a]
    ELSE IF a.status # AlertStatusActive THEN [err |-> ErrAlertNotActive, alert |-> a]
    ELSE [err |-> ErrNone,
          alert |-> Touch([a EXCEPT !.status = AlertStatusAcknowledged,
                                    !.acknowledgedBy = userID,
                                    !.acknowledgedAt = t], t)]

\* Variant of Resolve without the already-resolved check.
ResolveUnguarded(a, userID, t) ==
    [err |-> ErrNone,
     alert |-> Touch([a EXCEPT !.status = AlertStatusResolved,
                               !.resolvedBy = userID,
                               !.resolvedAt = t], t)]

\* Variant of Resolve that forgets resolved_by.
ResolveNoUser(a, userID, t) ==
    IF a.status = AlertStatusResolved THEN [err |-> ErrAlertAlreadyResolved, alert |-> a]
    ELSE [err |-> ErrNone,
          alert |-> Touch([a EXCEPT !.status = AlertStatusResolved, !.resolvedAt = t], t)]

\* Alert.Resolve: from any status except resolved.
Resolve(a, userID, t) ==
    IF a.status = AlertStatusResolved THEN [err |-> ErrAlertAlreadyResolved, alert |-> a]
    ELSE [err |-> ErrNone,
          alert |-> Touch([a EXCEPT !.status = AlertStatusResolved,
                                    !.resolvedBy = userID,
                                    !.resolvedAt = t], t)]

\* Variant of Expire that acts only once the expiration time has passed.
ExpireWhenDue(a, t) ==
    IF a.expiresAt # NoTime /\ t > a.expiresAt
    THEN Touch([a EXCEPT !.status = AlertStatusExpired], t) ELSE a
\* Alert.Expire: unconditional.
Expire(a, t) == Touch([a EXCEPT !.status = AlertStatusExpired], t)

\* Alert.SetExpiration
SetExpiration(a, expiresAt, t) == Touch([a EXCEPT !.expiresAt = expiresAt], t)

\* Alert.IsExpired
IsExpired(a, t) == IF a.expiresAt = NoTime THEN FALSE ELSE t > a.expiresAt

\* Alert.AddMetadata
AddMetadata(a, key, value, t) == Touch([a EXCEPT !.metadata[key] = value], t)

NoOp == [op |-> "NewAlert", user |-> NoUser, err |-> ErrNone, pre |-> NewAlert(0), at |-> 0]

AlertInit ==
    /\ alert = NewAlert(0)
    /\ now = 0
    /\ lastOp = NoOp

CallAcknowledge(u) ==
    LET r == Acknowledge(alert, u, now) IN
    /\ alert' = r.alert
    /\ lastOp' = [op |-> "Acknowledge", user |-> u, err |-> r.err, pre |-> alert,
                at |-> now]
    /\ UNCHANGED <<now, busVars, svcVars, cbVars, hubVars, retryVars, dlqVars, lifeVars, pageVars, clientVars, regVars, connVars>>

CallResolve(u) ==
    LET r == Resolve(alert, u, now) IN
    /\ alert' = r.alert
    /\ lastOp' = [op |-> "Resolve", user |-> u, err |-> r.err, pre |-> alert,
                at |-> now]
    /\ UNCHANGED <<now, busVars, svcVars, cbVars, hubVars, retryVars, dlqVars, lifeVars, pageVars, clientVars, regVars, connVars>>

CallExpire ==
    /\ alert' = Expire(alert, now)
    /\ lastOp' = [op |-> "Expire", user |-> NoUser, err |-> ErrNone, pre |-> alert,
                at |-> now]
    /\ UNCHANGED <<now, busVars, svcVars, cbVars, hubVars, retryVars, dlqVars, lifeVars, pageVars, clientVars, regVars, connVars>>

CallSetExpiration(e) ==
    /\ alert' = SetExpiration(alert, e, now)
    /\ lastOp' = [op |-> "SetExpiration", user |-> NoUser, err |-> ErrNone, pre |-> alert,
                at |-> now]
    /\ UNCHANGED <<now, busVars, svcVars, cbVars, hubVars, retryVars, dlqVars, lifeVars, pageVars, clientVars, regVars, connVars>>

CallAddMetadata(k, v) ==
    /\ alert' = AddMetadata(alert, k, v, now)
    /\ lastOp' = [op |-> "AddMetadata", user |-> NoUser, err |-> ErrNone, pre |-> alert,
                at |-> now]
    /\ UNCHANGED <<now, busVars, svcVars, cbVars, hubVars, retryVars, dlqVars, lifeVars, pageVars, clientVars, regVars, connVars>>

Tick ==
    /\ now < MaxTime
    /\ now' = now + 1
    /\ UNCHANGED <<alert, lastOp, busVars, svcVars, cbVars, hubVars, retryVars, dlqVars, lifeVars, pageVars, clientVars, regVars, connVars>>

AlertNext ==
    \/ \E u \in Users : CallAcknowledge(u)
    \/ \E u \in Users : CallResolve(u)
    \/ CallExpire
    \/ \E e \in 0..MaxTime : CallSetExpiration(e)
    \/ \E k \in MetaKeys, v \in MetaVals : CallAddMetadata(k, v)
    \/ Tick

(***************************************************************************)
(* Claims about the Alert entity (checked under SpecAlert).  lastOp.pre is *)
(* the alert before the last method call, alert the alert after it.        *)
(***************************************************************************)
TerminalStatuses == {AlertStatusResolved, AlertStatusExpired}
Called(op) == lastOp.op = op

\* C5 (as stated): resolved and expired are absorbing under every method, and
\* a repeated Resolve on a resolved alert is rejected with AlreadyResolved.
C5_TerminalAbsorbing ==
    /\ lastOp.pre.status \in TerminalStatuses => alert.status = lastOp.pre.status
    /\ (Called("Resolve") /\ lastOp.pre.status = AlertStatusResolved)
            => lastOp.err = ErrAlertAlreadyResolved

\* C5 (amended): Acknowledge, SetExpiration and AddMetadata never change a
\* terminal status; resolved is left only by Expire (to expired) and expired
\* only by Resolve (to resolved); a repeated Resolve on a resolved alert is
\* rejected with AlreadyResolved and changes nothing.
C5_TerminalExits ==
    /\ (lastOp.pre.status \in TerminalStatuses
          /\ lastOp.op \in {"Acknowledge", "SetExpiration", "AddMetadata"})
            => alert.status = lastOp.pre.status
    /\ (lastOp.pre.status = AlertStatusResolved /\ Called("Resolve"))
            => lastOp.err = ErrAlertAlreadyResolved /\ alert = lastOp.pre
    /\ (lastOp.pre.status = AlertStatusExpired /\ Called("Expire"))
            => alert.status = AlertStatusExpired
    /\ (lastOp.pre.status = AlertStatusResolved /\ Called("Expire"))
            => alert.status = AlertStatusExpired
    /\ (lastOp.pre.status = AlertStatusExpired /\ Called("Resolve"))
            => lastOp.err = ErrNone /\ alert.status = AlertStatusResolved

C5_Witness ==
    /\ Called("Resolve")
    /\ lastOp.pre.status = AlertStatusResolved
    /\ lastOp.err = ErrAlertAlreadyResolved

\* C6: Acknowledge succeeds only from active and then sets status, acknowledged_by
\* and acknowledged_at; it is rejected with AlreadyResolved / AlreadyAcknowledged /
\* NotActive from resolved / acknowledged / expired, and a rejected call leaves
\* every field unchanged.
C6_Acknowledge ==
    Called("Acknowledge") =>
        /\ lastOp.err = ErrNone <=> lastOp.pre.status = AlertStatusActive
        /\ lastOp.err = ErrNone =>
              alert = [lastOp.pre EXCEPT !.status = AlertStatusAcknowledged,
                                         !.acknowledgedBy = lastOp.user,
                                         !.acknowledgedAt = lastOp.at,
                                         !.updatedAt = lastOp.at]
        /\ lastOp.pre.status = AlertStatusResolved => lastOp.err = ErrAlertAlreadyResolved
        /\ lastOp.pre.status = AlertStatusAcknowledged
              => lastOp.err = ErrAlertAlreadyAcknowledged
        /\ lastOp.pre.status = AlertStatusExpired => lastOp.err = ErrAlertNotActive
        /\ lastOp.err # ErrNone => alert = lastOp.pre

C6_Witness ==
    /\ Called("Acknowledge")
    /\ lastOp.pre.status = AlertStatusActive
    /\ alert.status = AlertStatusAcknowledged
    /\ alert.acknowledgedBy = lastOp.user

\* C7 (as stated): Resolve moves the alert to resolved exactly when its status is
\* active or acknowledged, setting resolved_by and resolved_at; on resolved it is
\* rejected with AlreadyResolved and the alert is unchanged.
C7_ResolveOnlyFromOpen ==
    Called("Resolve") =>
        /\ lastOp.err = ErrNone
              <=> lastOp.pre.status \in {AlertStatusActive, AlertStatusAcknowledged}
        /\ lastOp.err = ErrNone =>
              /\ alert.status = AlertStatusResolved
              /\ alert.resolvedBy = lastOp.user
              /\ alert.resolvedAt = lastOp.at
        /\ lastOp.pre.status = AlertStatusResolved
              => lastOp.err = ErrAlertAlreadyResolved /\ alert = lastOp.pre

\* C7 (amended): Resolve moves the alert to resolved exactly when its status is
\* not resolved (active, acknowledged or expired), setting resolved_by and
\* resolved_at; on resolved it is rejected with AlreadyResolved, alert unchanged.
C7_ResolveFromAnyButResolved ==
    Called("Resolve") =>
        /\ lastOp.err = ErrNone <=> lastOp.pre.status # AlertStatusResolved
        /\ lastOp.err = ErrNone =>
              alert = [lastOp.pre EXCEPT !.status = AlertStatusResolved,
                                         !.resolvedBy = lastOp.user,
                                         !.resolvedAt = lastOp.at,
                                         !.updatedAt = lastOp.at]
        /\ lastOp.pre.status = AlertStatusResolved
              => lastOp.err = ErrAlertAlreadyResolved /\ alert = lastOp.pre

C7_Witness ==
    /\ Called("Resolve")
    /\ lastOp.pre.status = AlertStatusActive
    /\ lastOp.pre.acknowledgedBy = NoUser
    /\ alert.status = AlertStatusResolved
    /\ alert.resolvedBy = lastOp.user

\* C8: in every reachable alert the status is one of the four; acknowledged implies
\* acknowledged_by and acknowledged_at set; resolved implies resolved_by and
\* resolved_at set; each by/at pair is set together or not at all.
C8_AlertInvariant ==
    /\ alert.status \in AlertStatuses
    /\ alert.status = AlertStatusAcknowledged
          => alert.acknowledgedBy # NoUser /\ alert.acknowledgedAt # NoTime
    /\ alert.status = AlertStatusResolved
          => alert.resolvedBy # NoUser /\ alert.resolvedAt # NoTime
    /\ alert.acknowledgedBy # NoUser <=> alert.acknowledgedAt # NoTime
    /\ alert.resolvedBy # NoUser <=> alert.resolvedAt # NoTime

C8_Witness ==
    /\ alert.status = AlertStatusExpired
    /\ alert.acknowledgedBy # NoUser
    /\ alert.resolvedBy # NoUser
    /\ alert.expiresAt # NoTime

(***************************************************************************)
(* Event bus on Redis streams.                                             *)
(***************************************************************************)
StreamAlerts == "alerts"
StreamNotifications == "notifications"
StreamDeadLetter == "dead-letter"
Streams == {StreamAlerts, StreamNotifications, StreamDeadLetter}

GroupAlertProcessors == "alert-processors"
GroupDeadLetterProcessors == "dead-letter-processors"
Groups == {GroupAlertProcessors, GroupDeadLetterProcessors}

AlertCreated == "alert.created"
UserCreated == "user.created"
OtherType == "custom.type"
EventTypes == {AlertCreated, UserCreated, OtherType}

\* The consumer loops started by EventWorker.Start and DeadLetterProcessor.Start.
AlertWorker == "alertWorker"
DeadLetterWorker == "deadLetterWorker"
Consumers == {AlertWorker, DeadLetterWorker}
StreamOf(c) == IF c = AlertWorker THEN StreamAlerts ELSE StreamDeadLetter
GroupOf(c) == IF c = AlertWorker THEN GroupAlertProcessors ELSE GroupDeadLetterProcessors
Subscribed == {StreamOf(c) : c \in Consumers}

MaxRetries == 3     \* handleFailedEvent: evt.Retries >= 3
ReadCount == 10     \* XReadGroupArgs.Count
IndexCap == 1000    \* addToIndex: keep only the last 1000 entries

PubIds == 1..MaxPubs
\* The two events that reach the dead-letter processor.
DlqIds == {1, 2}
KvIds == PubIds \cup DlqIds
TsValid == "rfc3339"
TsGarbage == "garbage"

\* Payload bytes: the output of json.Marshal (NewEvent), and the same JSON
\* document written with insignificant white space by another producer.
Marshaled == "{\"id\":1}"
Spaced == "{ \"id\": 1 }"
NoPayload == "none"
Payloads == {Marshaled, Spaced}
\* json.Marshal of a json.RawMessage field (cacheRepo.Set of a FailedEvent):
\* the raw bytes are re-encoded compactly.
Compact(payload) == IF payload = Spaced THEN Marshaled ELSE payload

\* RedisStreamBus.getStreamForEventType
getStreamForEventType(eventType) ==
    CASE eventType = AlertCreated -> StreamAlerts
      [] eventType = UserCreated -> StreamNotifications
      [] OTHER -> StreamAlerts

\* Event.ToMap: the flat field map written by XADD.
ToMap(evt) ==
    [id |-> evt.id, type |-> evt.type, payload |-> evt.payload, retries |-> evt.retries,
     timestamp |-> TsValid, notString |-> {}]

\* event.FromMap: fails when the timestamp does not parse.
FromMapOk(values) == values.timestamp = TsValid
\* event.FromMap lines 72 and 102-104: the one-value type assertions
\* data[k].(string) panic on a key that is absent or holds no string (notString);
\* those of id, type and payload are reached only when the timestamp parsed.
EnvelopeKeys == {"id", "type", "payload", "timestamp"}
FromMapPanics(values) ==
    \/ "timestamp" \in values.notString
    \/ FromMapOk(values) /\ values.notString \cap {"id", "type", "payload"} # {}
FromMap(values) ==
    [id |-> values.id, type |-> values.type, payload |-> values.payload,
     retries |-> values.retries]

\* A stream entry: the field map plus history (publication, origin, parent entry).
Entry(values, pub, origin, from, parentAcked) ==
    [values |-> values, pub |-> pub, origin |-> origin, from |-> from,
     parentAcked |-> parentAcked]
NoParent == [stream |-> "none", idx |-> 0]

NoLog == [outcome |-> "none", acks |-> 0, copies |-> 0]
NoHist ==
    [nHandled |-> [g \in Groups |-> 0], counters |-> [g \in Groups |-> {}],
     succeeded |-> {}, nAppended |-> 0,
     appendFailed |-> FALSE, published |-> FALSE]
NoRecord ==
    [status |-> "absent", eventType |-> "none", payload |-> NoPayload, retries |-> 0,
     processedAt |-> NoTime]
IdleCons ==
    [pc |-> "idle", batch |-> <<>>,
     evt |-> [id |-> 0, type |-> "none", payload |-> NoPayload, retries |-> 0]]

BusInit ==
    /\ streams = [s \in Streams |-> <<>>]
    /\ lastId = [s \in Subscribed |-> 0]
    /\ pel = [s \in Subscribed |-> {}]
    /\ cons = [c \in Consumers |-> IdleCons]
    /\ nextPub = 0
    /\ hist = [p \in PubIds |-> NoHist]
    /\ msgLog = [s \in Streams |-> <<>>]
    /\ kv = [i \in KvIds |-> NoRecord]
    /\ failedIndex = <<>>

\* XADD of one entry.
XAdd(stream, entry) ==
    /\ streams' = [streams EXCEPT ![stream] = Append(@, entry)]

\* RedisStreamBus.PublishToStream of a new event (event.NewEvent: retries 0,
\* fresh id) on the stream named; the XADD may fail, and then nothing is appended.
PublishToStream(stream, eventType, addOk) ==
    /\ nextPub < MaxPubs
    /\ nextPub' = nextPub + 1
    /\ LET pub == nextPub + 1
           evt == [id |-> pub, type |-> eventType, payload |-> Marshaled, retries |-> 0]
       IN IF addOk
          THEN /\ XAdd(stream, Entry(ToMap(evt), pub, "publish", NoParent, FALSE))
               /\ msgLog' = [msgLog EXCEPT ![stream] = Append(@, NoLog)]
               /\ hist' = [hist EXCEPT ![pub].published = TRUE]
          ELSE UNCHANGED <<streams, msgLog, hist>>
    /\ UNCHANGED <<lastId, pel, cons, kv, failedIndex, alertVars, svcVars, cbVars, hubVars, retryVars, dlqVars, lifeVars, pageVars, clientVars, regVars, connVars>>

\* RedisStreamBus.Publish: PublishToStream on the stream of the event's type.
Publish(eventType, addOk) == PublishToStream(getStreamForEventType(eventType), eventType, addOk)

MalformedWritten ==
    \E s \in Streams : \E i \in 1..Len(streams[s]) : streams[s][i].origin = "inject"

\* An entry written by another producer whose timestamp field does not parse
\* (one such entry exercises the parse-error path).
InjectMalformed(stream) ==
    /\ ~MalformedWritten
    /\ XAdd(stream, Entry([id |-> 0, type |-> AlertCreated, payload |-> Spaced,
                           retries |-> 0, timestamp |-> TsGarbage, notString |-> {}],
                          0, "inject", NoParent, FALSE))
    /\ msgLog' = [msgLog EXCEPT ![stream] = Append(@, NoLog)]
    /\ UNCHANGED <<lastId, pel, cons, nextPub, hist, kv, failedIndex, alertVars, svcVars, cbVars, hubVars, retryVars, dlqVars, lifeVars, pageVars, clientVars, regVars, connVars>>

Min(a, b) == IF a < b THEN a ELSE b

\* The worker whose Start subscribed the loop, and whose context the loop holds.
EventWorker == "EventWorker"
DeadLetterProcessor == "DeadLetterProcessor"
Workers == {EventWorker, DeadLetterProcessor}
WorkerOf(c) == IF c = AlertWorker THEN EventWorker ELSE DeadLetterProcessor

\* consume lines 84-88: a case of the select is ready.
Signalled(c, ch, cx) == ch = "closed" \/ cx[WorkerOf(c)] = "cancelled"

\* A loop that is idle when the signal arrives may already be inside the
\* blocking XREADGROUP of readMessages (the select ran before the signal):
\* that read window is still open.  ch and cx are the values after the signal.
Mark(ch, cx) ==
    [c \in Consumers |->
        IF /\ loop[c] = "running"
           /\ cons[c].pc = "idle"
           /\ ~Signalled(c, stopCh, wctx)
           /\ Signalled(c, ch, cx)
        THEN "window" ELSE loop[c]]

\* The select of consume takes its default branch, or the read is the one
\* whose window was open when the signal arrived.
CanRead(c) ==
    \/ loop[c] = "window"
    \/ loop[c] = "running" /\ ~Signalled(c, stopCh, wctx)

\* readMessages: XREADGROUP ">" delivers up to Count new entries; all enter the PEL.
ReadMessages(c) ==
    LET s == StreamOf(c)
        hi == Min(Len(streams[s]), lastId[s] + ReadCount)
    IN /\ cons[c].pc = "idle"
       /\ CanRead(c)
       /\ hi > lastId[s]
       /\ loop' = [loop EXCEPT ![c] = "running"]
       /\ lifeLog' = [lifeLog EXCEPT !.lateReads[c] =
                                        IF Signalled(c, stopCh, wctx) THEN @ + 1 ELSE @]
       /\ lastId' = [lastId EXCEPT ![s] = hi]
       /\ pel' = [pel EXCEPT ![s] = @ \cup ((lastId[s] + 1)..hi)]
       /\ cons' = [cons EXCEPT ![c].pc = "parse",
                               ![c].batch = [k \in 1..(hi - lastId[s]) |-> lastId[s] + k]]
       /\ UNCHANGED <<streams, nextPub, hist, msgLog, kv, failedIndex, alertVars, svcVars, cbVars, hubVars, retryVars, dlqVars, pageVars, clientVars, regVars, connVars>>
       /\ UNCHANGED <<stopCh, wg, wctx, stopper, panicked>>

Cur(c) == Head(cons[c].batch)
SetOutcome(s, i, o) == [msgLog EXCEPT ![s][i].outcome = o]

\* Variant of AfterParse that returns on a parse error without acknowledging.
AfterParseNoAck(ok) == IF ok THEN "handle" ELSE "ret"
\* processMessage lines 122-127: a parse error acknowledges and returns.
AfterParse(ok) == IF ok THEN "handle" ELSE "ack"

\* processMessage: event.FromMap.  A panic inside FromMap is recovered nowhere on
\* the consumer goroutine, so it ends the process.
ParseMessage(c) ==
    LET s == StreamOf(c)
        m == streams[s][Cur(c)]
    IN /\ cons[c].pc = "parse"
       /\ IF FromMapPanics(m.values)
          THEN /\ panicked' = TRUE
               /\ msgLog' = SetOutcome(s, Cur(c), "panic")
               /\ UNCHANGED cons
          ELSE /\ cons' = [cons EXCEPT ![c].pc = AfterParse(FromMapOk(m.values)),
                                       ![c].evt = IF FromMapOk(m.values) THEN FromMap(m.values)
                                                  ELSE IdleCons.evt]
               /\ msgLog' = IF FromMapOk(m.values) THEN msgLog
                            ELSE SetOutcome(s, Cur(c), "parsefail")
               /\ UNCHANGED panicked
       /\ UNCHANGED <<stopCh, wg, wctx, loop, stopper, lifeLog>>
       /\ UNCHANGED <<streams, lastId, pel, nextPub, hist, kv, failedIndex, alertVars, svcVars, cbVars, hubVars, retryVars, dlqVars, pageVars, clientVars, regVars, connVars>>

\* processMessage lines 129-134: on a handler error handleFailedEvent runs first.
AfterHandle(failed) == IF failed THEN "failed" ELSE "ack"

RecordHandled(c, failed) ==
    LET p == streams[StreamOf(c)][Cur(c)].pub
        g == GroupOf(c)
    IN hist' = [hist EXCEPT ![p].nHandled[g] = @ + 1,
                            ![p].counters[g] = @ \cup {cons[c].evt.retries},
                            ![p].succeeded = IF failed THEN @ ELSE @ \cup {g}]

\* AlertConsumer.Handle: an unknown type is logged and succeeds; for alert.*
\* the payload decoding or a registered handler may fail.
HandleAlertEvent(c, failed) ==
    /\ c = AlertWorker
    /\ cons[c].pc = "handle"
    /\ (failed => cons[c].evt.type = AlertCreated)
    /\ cons' = [cons EXCEPT ![c].pc = AfterHandle(failed)]
    /\ RecordHandled(c, failed)
    /\ msgLog' = SetOutcome(StreamOf(c), Cur(c), IF failed THEN "failed" ELSE "ok")
    /\ UNCHANGED <<streams, lastId, pel, nextPub, kv, failedIndex, alertVars, svcVars, cbVars, hubVars, retryVars, dlqVars, lifeVars, pageVars, clientVars, regVars, connVars>>

Last(seq, n) == IF Len(seq) > n THEN SubSeq(seq, Len(seq) - n + 1, Len(seq)) ELSE seq

\* DeadLetterProcessor.addToIndex: a failed Get leaves the local index empty.
addToIndex(index, getOk, eventID) == Last(Append(IF getOk THEN index ELSE <<>>, eventID), IndexCap)

\* DeadLetterProcessor.handleDeadLetter: store the FailedEvent, then index it.
\* The handler fails exactly when the record's Set fails.
HandleDeadLetter(c, setOk, getOk, idxSetOk) ==
    LET evt == cons[c].evt IN
    /\ c = DeadLetterWorker
    /\ cons[c].pc = "handle"
    /\ (~setOk => evt.retries < RetryCap)
    /\ (~setOk => getOk /\ idxSetOk)
    /\ cons' = [cons EXCEPT ![c].pc = AfterHandle(~setOk)]
    /\ RecordHandled(c, ~setOk)
    /\ msgLog' = SetOutcome(StreamOf(c), Cur(c), IF setOk THEN "ok" ELSE "failed")
    /\ kv' = IF setOk
             THEN [kv EXCEPT ![evt.id] = [status |-> "pending", eventType |-> evt.type,
                                          payload |-> Compact(evt.payload),
                                          retries |-> evt.retries, processedAt |-> NoTime]]
             ELSE kv
    /\ failedIndex' = IF setOk /\ idxSetOk THEN addToIndex(failedIndex, getOk, evt.id)
                      ELSE failedIndex
    /\ UNCHANGED <<streams, lastId, pel, nextPub, alertVars, svcVars, cbVars, hubVars, retryVars, dlqVars, lifeVars, pageVars, clientVars, regVars, connVars>>

\* Variant of RetryTarget with the threshold test > instead of >=.
RetryTargetLate(eventType, retries) ==
    IF retries > MaxRetries THEN StreamDeadLetter ELSE getStreamForEventType(eventType)
\* handleFailedEvent lines 148-158: where the copy carrying `retries` goes.
RetryTarget(eventType, retries) ==
    IF retries >= MaxRetries THEN StreamDeadLetter ELSE getStreamForEventType(eventType)

\* handleFailedEvent: evt.Retries++, then one PublishToStream whose error is only logged.
HandleFailedEvent(c, addOk) ==
    LET s == StreamOf(c)
        i == Cur(c)
        p == streams[s][i].pub
        evt == [cons[c].evt EXCEPT !.retries = @ + 1]
        target == RetryTarget(evt.type, evt.retries)
    IN /\ cons[c].pc = "failed"
       /\ cons' = [cons EXCEPT ![c].pc = "ack", ![c].evt = evt]
       /\ IF addOk
          THEN /\ XAdd(target, Entry(ToMap(evt), p, "retry", [stream |-> s, idx |-> i],
                                     msgLog[s][i].acks > 0))
               /\ msgLog' = [[msgLog EXCEPT ![s][i].outcome = "republished",
                                            ![s][i].copies = @ + 1]
                                EXCEPT ![target] = Append(@, NoLog)]
               /\ hist' = [hist EXCEPT ![p].nAppended = @ + 1]
          ELSE /\ msgLog' = SetOutcome(s, i, "copylost")
               /\ hist' = [hist EXCEPT ![p].appendFailed = TRUE]
               /\ UNCHANGED streams
       /\ UNCHANGED <<lastId, pel, nextPub, kv, failedIndex, alertVars, svcVars, cbVars, hubVars, retryVars, dlqVars, lifeVars, pageVars, clientVars, regVars, connVars>>

\* acknowledgeMessage: XACK removes the entry from the group's PEL (the command
\* itself is taken to succeed; its error branch only logs).
AcknowledgeMessage(c) ==
    LET s == StreamOf(c) IN
    /\ cons[c].pc = "ack"
    /\ pel' = [pel EXCEPT ![s] = @ \ {Cur(c)}]
    /\ msgLog' = [msgLog EXCEPT ![s][Cur(c)].acks = @ + 1]
    /\ cons' = [cons EXCEPT ![c].pc = "ret"]
    /\ UNCHANGED <<streams, lastId, nextPub, hist, kv, failedIndex, alertVars, svcVars, cbVars, hubVars, retryVars, dlqVars, lifeVars, pageVars, clientVars, regVars, connVars>>

\* readMessages lines 113-117: processMessage returned; next message of the batch,
\* or back to the consume loop.
NextMessage(c) ==
    /\ cons[c].pc = "ret"
    /\ cons' = [cons EXCEPT ![c].batch = Tail(@),
                            ![c].pc = IF Len(cons[c].batch) > 1 THEN "parse" ELSE "idle"]
    /\ UNCHANGED <<streams, lastId, pel, nextPub, hist, msgLog, kv, failedIndex, alertVars, svcVars, cbVars, hubVars, retryVars, dlqVars, lifeVars, pageVars, clientVars, regVars, connVars>>

BusNext ==
    \/ \E t \in EventTypes, ok \in BOOLEAN : Publish(t, ok)
    \/ \E s \in Subscribed : InjectMalformed(s)
    \/ \E c \in Consumers : ReadMessages(c)
    \/ \E c \in Consumers : ParseMessage(c)
    \/ \E c \in Consumers, failed \in BOOLEAN : HandleAlertEvent(c, failed)
    \/ \E c \in Consumers, setOk, getOk, idxSetOk \in BOOLEAN :
            HandleDeadLetter(c, setOk, getOk, idxSetOk)
    \/ \E c \in Consumers, ok \in BOOLEAN : HandleFailedEvent(c, ok)
    \/ \E c \in Consumers : AcknowledgeMessage(c)
    \/ \E c \in Consumers : NextMessage(c)

\* C29 (as stated): Expire moves an alert to expired only when its expires_at
\* is set and has passed; with expires_at unset or in the future the status
\* does not change; an expired alert stays expired.
C29_ExpireOnlyWhenDue ==
    Called("Expire") =>
        /\ IsExpired(lastOp.pre, lastOp.at) => alert.status = AlertStatusExpired
        /\ ~IsExpired(lastOp.pre, lastOp.at) => alert.status = lastOp.pre.status
        /\ lastOp.pre.status = AlertStatusExpired => alert.status = AlertStatusExpired

\* C29 (amended): Expire sets the status to expired whatever expires_at and
\* the current status are, stamps updated_at and changes nothing else; on an
\* expired alert it leaves the status expired.
C29_ExpireUnconditional ==
    Called("Expire") =>
        /\ alert.status = AlertStatusExpired
        /\ alert.updatedAt = lastOp.at
        /\ [alert EXCEPT !.status = lastOp.pre.status, !.updatedAt = lastOp.pre.updatedAt]
               = lastOp.pre
C29_Witness ==
    /\ Called("Expire")
    /\ lastOp.pre.status = AlertStatusAcknowledged
    /\ lastOp.pre.expiresAt # NoTime
    /\ lastOp.pre.expiresAt > lastOp.at
    /\ alert.status = AlertStatusExpired

\* An entry written by another producer in which one key of the envelope is
\* absent or holds no string; its timestamp, when present, may or may not parse.
InjectIncomplete(stream, key, ts) ==
    /\ ~MalformedWritten
    /\ XAdd(stream, Entry([id |-> 0, type |-> AlertCreated, payload |-> Spaced,
                           retries |-> 0, timestamp |-> ts, notString |-> {key}],
                          0, "inject", NoParent, FALSE))
    /\ msgLog' = [msgLog EXCEPT ![stream] = Append(@, NoLog)]
    /\ UNCHANGED <<lastId, pel, cons, nextPub, hist, kv, failedIndex, alertVars, svcVars, cbVars, hubVars, retryVars, dlqVars, lifeVars, pageVars, clientVars, regVars, connVars>>

\* The bus reading envelopes of every shape; a panic ends the process.
EnvelopeNext ==
    \/ ~panicked /\ BusNext
    \/ \E s \in Subscribed, k \in EnvelopeKeys, ts \in {TsValid, TsGarbage} :
          ~panicked /\ InjectIncomplete(s, k, ts)

\* The bus with producers that also place events on a stream of their choice.
StreamNext ==
    \/ BusNext
    \/ \E s \in Subscribed, t \in EventTypes : PublishToStream(s, t, TRUE)

(***************************************************************************)
(* Claims about the event bus (checked under SpecBus).                     *)
(***************************************************************************)
EntriesOf(s) == 1..Len(streams[s])
\* A copy of publication p that a consumer group has still to finish: not yet
\* delivered, or delivered and not acknowledged; a stream nobody subscribed to
\* keeps its entries.
Live(p) ==
    \E s \in Streams : \E i \in EntriesOf(s) :
        /\ streams[s][i].pub = p
        /\ s \in Subscribed => (i > lastId[s] \/ i \in pel[s])
InDeadLetter(p) ==
    \E i \in EntriesOf(StreamDeadLetter) :
        /\ streams[StreamDeadLetter][i].pub = p
        /\ streams[StreamDeadLetter][i].values.retries >= MaxRetries
DeliveredTo(p, g) == hist[p].nHandled[g] > 0

\* C1 (as stated): an event delivered to a group's handler is never acknowledged
\* and gone from all streams while no handler invocation on a copy of it has
\* succeeded and no copy of it is in dead-letter with retries >= 3.
C1_NoEventLost ==
    \A p \in PubIds :
        DeliveredTo(p, GroupAlertProcessors)
            => \/ Live(p)
               \/ GroupAlertProcessors \in hist[p].succeeded
               \/ InDeadLetter(p)

RetryEntries(s) == {i \in EntriesOf(s) : streams[s][i].origin = "retry"}
Parent(e) == streams[e.from.stream][e.from.idx]
CopiesOf(s, i) ==
    Cardinality(UNION {{<<t, j>> : j \in {k \in EntriesOf(t) :
                            /\ streams[t][k].origin = "retry"
                            /\ streams[t][k].from = [stream |-> s, idx |-> i]}} :
                       t \in Streams})
\* No copy of p is left for a work-stream group, and no XADD of a copy failed.
RetriesRanOut(p) ==
    /\ hist[p].published
    /\ DeliveredTo(p, GroupAlertProcessors)
    /\ GroupAlertProcessors \notin hist[p].succeeded
    /\ ~hist[p].appendFailed
    /\ \A i \in EntriesOf(StreamAlerts) :
           streams[StreamAlerts][i].pub = p => (i <= lastId[StreamAlerts] /\ i \notin pel[StreamAlerts])

Finished == {"ok", "parsefail", "republished", "copylost"}
InBatch(s, i) ==
    \E c \in Consumers :
        /\ StreamOf(c) = s
        /\ \E k \in 1..Len(cons[c].batch) : cons[c].batch[k] = i
        /\ ~(cons[c].pc = "ret" /\ Cur(c) = i)

C4_RetriesCapped ==
    \A p \in PubIds :
        /\ hist[p].nAppended <= MaxRetries
        /\ \A g \in Groups : hist[p].nHandled[g] <= MaxRetries

(***************************************************************************)
(* Alert service: the lifecycle commands Create, Acknowledge, Resolve and  *)
(* Delete, and GetStatistics.  Acknowledge, Resolve and Delete work on one *)
(* stored alert; each Create inserts a row under a fresh id.  A command    *)
(* writes the Store once and then fans out: cache key stats:alerts, Hub,   *)
(* event bus.                                                              *)
(***************************************************************************)
Calls == 1..MaxCalls
CmdAcknowledge == "Acknowledge"
CmdResolve == "Resolve"
CmdCreate == "Create"
CmdDelete == "Delete"
CmdGetStatistics == "GetStatistics"
Mutations == {CmdCreate, CmdAcknowledge, CmdResolve, CmdDelete}
Cmds == Mutations \cup {CmdGetStatistics}
ErrStore == "StoreError"
ErrNotFound == "NotFound"
ErrAlertNotFound == "AlertNotFound"
StatsTTL == 60      \* GetStatistics: cacheRepo.Set(..., time.Minute), in seconds

\* The user argument of a command: Create and GetStatistics take none, and
\* Delete only passes deletedBy on to the event it publishes.
UsersOf(cmd) ==
    CASE cmd \in {CmdCreate, CmdGetStatistics} -> {NoUser}
      [] cmd = CmdDelete -> {"u1"}
      [] OTHER -> Users

\* PostgresAlertRepository.GetStatistics: total and per-status counts of the
\* rows; ver numbers the Store write the counts were read after.
Count(b) == IF b THEN 1 ELSE 0
StoreStats ==
    [ver |-> Len(writes),
     total |-> Cardinality(others) + Count(exists),
     active |-> Cardinality(others) + Count(exists /\ store.status = AlertStatusActive),
     acknowledged |-> Count(exists /\ store.status = AlertStatusAcknowledged),
     resolved |-> Count(exists /\ store.status = AlertStatusResolved)]
NoStats == [ver |-> 0, total |-> 0, active |-> 0, acknowledged |-> 0, resolved |-> 0]
NoEntry == [stats |-> NoStats, exp |-> 0]

IdleCall == [pc |-> "idle", cmd |-> "none", user |-> NoUser, local |-> NewAlert(0),
             err |-> ErrNone, stats |-> NoStats]
NoSvcLog == [updated |-> FALSE, pre |-> "none", post |-> "none", cacheDel |-> FALSE,
             ws |-> FALSE, bus |-> FALSE, seen |-> "none",
             storeErr |-> ErrNone, ver |-> 0, trace |-> <<>>, fanFailed |-> FALSE]

\* The alert exists, as NewAlert made it, and its statistics are cached.
SvcInit ==
    /\ store = NewAlert(0)
    /\ exists = TRUE
    /\ others = {}
    /\ writes = <<>>
    /\ cache = TRUE
    /\ statsEntry = [stats |-> [NoStats EXCEPT !.total = 1, !.active = 1], exp |-> StatsTTL]
    /\ proc = [p \in Calls |-> IdleCall]
    /\ svcLog = [p \in Calls |-> NoSvcLog]

\* The first step of each command.
FirstStep(cmd) ==
    CASE cmd = CmdCreate -> "create"
      [] cmd = CmdDelete -> "delete"
      [] cmd = CmdGetStatistics -> "sget"
      [] OTHER -> "get"

\* A request enters an AlertService method.
SvcBegin(p, cmd, u) ==
    /\ proc[p].pc = "idle"
    /\ p > 1 => proc[p - 1].pc # "idle"
    /\ u \in UsersOf(cmd)
    /\ proc' = [proc EXCEPT ![p].pc = FirstStep(cmd), ![p].cmd = cmd, ![p].user = u]
    /\ UNCHANGED <<store, exists, others, writes, cache, statsEntry, svcLog,
                   alertVars, busVars, cbVars, hubVars, retryVars, dlqVars, lifeVars, pageVars, clientVars, regVars, connVars>>

\* The same, when requests are served one after the other.
SvcBeginSeq(p, cmd, u) ==
    /\ \A q \in Calls : proc[q].pc \in {"idle", "done"}
    /\ SvcBegin(p, cmd, u)

\* The entity method the command runs on its copy of the row.
EntityCall(cmd, a, u, t) ==
    IF cmd = CmdAcknowledge THEN Acknowledge(a, u, t) ELSE Resolve(a, u, t)

\* Variant of SvcAfterCheck that goes on to Update after an entity error.
SvcAfterCheckIgnoreErr(err) == "update"
\* Acknowledge lines 204-207, Resolve lines 253-256: an entity error returns.
SvcAfterCheck(err) == IF err = ErrNone THEN "update" ELSE "done"

\* alertRepo.GetByID (not-found is returned as ErrAlertNotFound), then
\* alert.Acknowledge / alert.Resolve on the row read.
SvcLoad(p, ok) ==
    /\ proc[p].pc = "get"
    /\ IF ok /\ exists
       THEN LET r == EntityCall(proc[p].cmd, store, proc[p].user, now) IN
            /\ proc' = [proc EXCEPT ![p].pc = SvcAfterCheck(r.err),
                                    ![p].local = r.alert,
                                    ![p].err = r.err]
            /\ svcLog' = [svcLog EXCEPT ![p].seen = store.status]
       ELSE /\ proc' = [proc EXCEPT ![p].pc = "done",
                                    ![p].err = IF ok THEN ErrAlertNotFound ELSE ErrStore]
            /\ UNCHANGED svcLog
    /\ UNCHANGED <<store, exists, others, writes, cache, statsEntry, alertVars, busVars, cbVars, hubVars, retryVars, dlqVars, lifeVars, pageVars, clientVars, regVars, connVars>>

\* PostgresAlertRepository.Update: every column of the row is replaced.
RepoUpdate(row, a) == a

\* Variant of SvcAfterWrite that fans out after a failed Store write.
SvcAfterWriteIgnoreErr(err) == "cache"
\* Create lines 96-99, Acknowledge 209-212, Delete 294-300: a Store error returns.
SvcAfterWrite(err) == IF err = ErrNone THEN "cache" ELSE "done"

\* Delete lines 295-297: the Store's not-found becomes ErrAlertNotFound.
DeleteErr(err) == IF err = ErrNotFound THEN ErrAlertNotFound ELSE err

\* The record svcLog keeps of a Store write and of the error it returned.
LogWrite(p, err, pre, post) ==
    [svcLog EXCEPT ![p].updated = (err = ErrNone),
                   ![p].storeErr = err,
                   ![p].pre = IF err = ErrNone THEN pre ELSE @,
                   ![p].post = IF err = ErrNone THEN post ELSE @,
                   ![p].ver = IF err = ErrNone THEN Len(writes) + 1 ELSE @,
                   ![p].trace = IF err = ErrNone THEN Append(@, "store") ELSE @]

\* alertRepo.Update: zero rows affected is ErrNotFound; a failure returns the
\* error before any fan-out.
SvcUpdate(p, ok) ==
    LET err == IF ~ok THEN ErrStore ELSE IF ~exists THEN ErrNotFound ELSE ErrNone IN
    /\ proc[p].pc = "update"
    /\ proc' = [proc EXCEPT ![p].pc = SvcAfterWrite(err), ![p].err = err]
    /\ svcLog' = LogWrite(p, err, store.status, proc[p].local.status)
    /\ IF err = ErrNone
       THEN /\ store' = RepoUpdate(store, proc[p].local)
            /\ writes' = Append(writes, now)
       ELSE UNCHANGED <<store, writes>>
    /\ UNCHANGED <<exists, others, cache, statsEntry, alertVars, busVars, cbVars, hubVars, retryVars, dlqVars, lifeVars, pageVars, clientVars, regVars, connVars>>

\* Create: entity.NewAlert, then alertRepo.Create inserts the row of a fresh id.
SvcCreate(p, ok) ==
    LET err == IF ok THEN ErrNone ELSE ErrStore IN
    /\ proc[p].pc = "create"
    /\ proc' = [proc EXCEPT ![p].pc = SvcAfterWrite(err), ![p].err = err,
                            ![p].local = NewAlert(now)]
    /\ svcLog' = LogWrite(p, err, "none", AlertStatusActive)
    /\ IF err = ErrNone
       THEN /\ others' = others \cup {p}
            /\ writes' = Append(writes, now)
       ELSE UNCHANGED <<others, writes>>
    /\ UNCHANGED <<store, exists, cache, statsEntry, alertVars, busVars, cbVars, hubVars, retryVars, dlqVars, lifeVars, pageVars, clientVars, regVars, connVars>>

\* Delete: alertRepo.Delete removes the row; zero rows affected is ErrNotFound.
SvcDelete(p, ok) ==
    LET err == IF ~ok THEN ErrStore ELSE IF ~exists THEN ErrNotFound ELSE ErrNone IN
    /\ proc[p].pc = "delete"
    /\ proc' = [proc EXCEPT ![p].pc = SvcAfterWrite(err), ![p].err = DeleteErr(err)]
    /\ svcLog' = LogWrite(p, err, store.status, "deleted")
    /\ IF err = ErrNone
       THEN /\ exists' = FALSE
            /\ writes' = Append(writes, now)
       ELSE UNCHANGED <<exists, writes>>
    /\ UNCHANGED <<store, others, cache, statsEntry, alertVars, busVars, cbVars, hubVars, retryVars, dlqVars, lifeVars, pageVars, clientVars, regVars, connVars>>

\* The record svcLog keeps of a fan-out step and of a failure among them.
LogStep(p, step, ok) ==
    [svcLog EXCEPT ![p].trace = Append(@, step),
                   ![p].fanFailed = @ \/ ~ok,
                   ![p].cacheDel = IF step = "cache" THEN TRUE ELSE @,
                   ![p].ws = IF step = "ws" THEN TRUE ELSE @,
                   ![p].bus = IF step = "bus" THEN TRUE ELSE @]

\* Variant of SvcAfterCache that skips the Hub broadcast.
SvcAfterCacheSkipWs == "bus"
\* The step after cacheRepo.Delete: the Hub broadcast.
SvcAfterCache == "ws"

\* Variant of FanoutErr that returns a fan-out failure to the caller.
FanoutErrSurfaced(err, ok) == IF ok THEN err ELSE ErrStore
\* `_ = s.cacheRepo.Delete(...)` and the publishers, which return nothing: the
\* command's result is not changed by a fan-out step.
FanoutErr(err, ok) == err

\* cacheRepo.Delete("stats:alerts"); its error is dropped.
SvcCacheDelete(p, ok) ==
    /\ proc[p].pc = "cache"
    /\ cache' = IF ok THEN FALSE ELSE cache
    /\ statsEntry' = IF ok THEN NoEntry ELSE statsEntry
    /\ proc' = [proc EXCEPT ![p].pc = SvcAfterCache, ![p].err = FanoutErr(@, ok)]
    /\ svcLog' = LogStep(p, "cache", ok)
    /\ UNCHANGED <<store, exists, others, writes, alertVars, busVars, cbVars, hubVars, retryVars, dlqVars, lifeVars, pageVars, clientVars, regVars, connVars>>

\* wsPublisher.PublishAlert*: Hub.Broadcast; the message may be dropped on the
\* way to the clients.
SvcWsPublish(p, ok) ==
    /\ proc[p].pc = "ws"
    /\ proc' = [proc EXCEPT ![p].pc = "bus", ![p].err = FanoutErr(@, ok)]
    /\ svcLog' = LogStep(p, "ws", ok)
    /\ UNCHANGED <<store, exists, others, writes, cache, statsEntry, alertVars, busVars, cbVars, hubVars, retryVars, dlqVars, lifeVars, pageVars, clientVars, regVars, connVars>>

\* eventProducer.PublishAlert*: a publish error (after the wrapper's retries)
\* is logged; then the command returns.
SvcBusPublish(p, ok) ==
    /\ proc[p].pc = "bus"
    /\ proc' = [proc EXCEPT ![p].pc = "done", ![p].err = FanoutErr(@, ok)]
    /\ svcLog' = LogStep(p, "bus", ok)
    /\ UNCHANGED <<store, exists, others, writes, cache, statsEntry, alertVars, busVars, cbVars, hubVars, retryVars, dlqVars, lifeVars, pageVars, clientVars, regVars, connVars>>

\* The key stats:alerts is readable: set, not deleted, not yet expired.
CachePresent == cache /\ now < statsEntry.exp

\* GetStatistics line 328: cacheRepo.Get; a hit returns the cached value, a miss
\* or a cache error goes on to the Store.
SvcStatsGet(p, ok) ==
    /\ proc[p].pc = "sget"
    /\ proc' = IF ok /\ CachePresent
               THEN [proc EXCEPT ![p].pc = "done", ![p].stats = statsEntry.stats]
               ELSE [proc EXCEPT ![p].pc = "sread"]
    /\ UNCHANGED <<store, exists, others, writes, cache, statsEntry, svcLog,
                   alertVars, busVars, cbVars, hubVars, retryVars, dlqVars, lifeVars, pageVars, clientVars, regVars, connVars>>

\* GetStatistics lines 336-340: alertRepo.GetStatistics.
SvcStatsRead(p, ok) ==
    /\ proc[p].pc = "sread"
    /\ proc' = IF ok
               THEN [proc EXCEPT ![p].pc = "sset", ![p].stats = StoreStats]
               ELSE [proc EXCEPT ![p].pc = "done", ![p].err = ErrStore]
    /\ UNCHANGED <<store, exists, others, writes, cache, statsEntry, svcLog,
                   alertVars, busVars, cbVars, hubVars, retryVars, dlqVars, lifeVars, pageVars, clientVars, regVars, connVars>>

\* GetStatistics line 342: cacheRepo.Set with TTL one minute; its error is dropped.
SvcStatsSet(p, ok) ==
    /\ proc[p].pc = "sset"
    /\ proc' = [proc EXCEPT ![p].pc = "done"]
    /\ IF ok
       THEN /\ cache' = TRUE
            /\ statsEntry' = [stats |-> proc[p].stats, exp |-> now + StatsTTL]
       ELSE UNCHANGED <<cache, statsEntry>>
    /\ UNCHANGED <<store, exists, others, writes, svcLog, alertVars, busVars, cbVars, hubVars, retryVars, dlqVars, lifeVars, pageVars, clientVars, regVars, connVars>>

\* A cache TTL period passes.
TTLPasses ==
    /\ now < MaxTime
    /\ now' = now + StatsTTL
    /\ UNCHANGED <<alert, lastOp, busVars, svcVars, cbVars, hubVars, retryVars, dlqVars, lifeVars, pageVars, clientVars, regVars, connVars>>

SvcSteps ==
    \/ \E p \in Calls, ok \in BOOLEAN : SvcLoad(p, ok)
    \/ \E p \in Calls, ok \in BOOLEAN : SvcUpdate(p, ok)
    \/ \E p \in Calls, ok \in BOOLEAN : SvcCreate(p, ok)
    \/ \E p \in Calls, ok \in BOOLEAN : SvcDelete(p, ok)
    \/ \E p \in Calls, ok \in BOOLEAN : SvcCacheDelete(p, ok)
    \/ \E p \in Calls, ok \in BOOLEAN : SvcWsPublish(p, ok)
    \/ \E p \in Calls, ok \in BOOLEAN : SvcBusPublish(p, ok)

StatsSteps ==
    \/ \E p \in Calls, ok \in BOOLEAN : SvcStatsGet(p, ok)
    \/ \E p \in Calls, ok \in BOOLEAN : SvcStatsRead(p, ok)
    \/ \E p \in Calls, ok \in BOOLEAN : SvcStatsSet(p, ok)

\* Concurrent lifecycle commands, all made by one user (who acts is the
\* subject of the sequential runs).
SvcNext ==
    \/ \E p \in Calls, cmd \in Mutations, u \in {"u1", NoUser} : SvcBegin(p, cmd, u)
    \/ SvcSteps

\* Lifecycle commands served one after the other.
SvcSeqNext ==
    \/ \E p \in Calls, cmd \in Mutations, u \in Users \cup {NoUser} : SvcBeginSeq(p, cmd, u)
    \/ SvcSteps

\* Concurrent lifecycle commands and GetStatistics calls, with a running clock.
StatsNext ==
    \/ \E p \in Calls, cmd \in Cmds, u \in Users \cup {NoUser} : SvcBegin(p, cmd, u)
    \/ SvcSteps
    \/ StatsSteps
    \/ Tick
    \/ TTLPasses

(***************************************************************************)
(* Circuit breaker.  Callers run Execute concurrently: canExecute and      *)
(* recordResult each run under the breaker's mutex, the wrapped function   *)
(* runs between them without it.                                           *)
(***************************************************************************)
StateClosed == "closed"
StateOpen == "open"
StateHalfOpen == "half-open"
ErrCircuitOpen == "CircuitOpen"
Callers == 1..MaxCallers
\* The configurations a breaker is created with.
Configs ==
    [MaxFailures : 1..MaxCfg, HalfOpenRequests : 1..MaxCfg, Timeout : {CfgTimeout}]

\* circuitbreaker.New
New(config) ==
    [config |-> config, state |-> StateClosed, failures |-> 0, successes |-> 0,
     lastFailure |-> NoTime, halfOpenRequests |-> 0]

\* Variant of toOpen that keeps the half-open counters.
toOpenKeepCounters(b) == [b EXCEPT !.state = StateOpen]
\* CircuitBreaker.toOpen
toOpen(b) == [b EXCEPT !.state = StateOpen, !.successes = 0, !.halfOpenRequests = 0]
\* CircuitBreaker.toHalfOpen
toHalfOpen(b) ==
    [b EXCEPT !.state = StateHalfOpen, !.failures = 0, !.successes = 0,
              !.halfOpenRequests = 0]
\* CircuitBreaker.toClosed
toClosed(b) ==
    [b EXCEPT !.state = StateClosed, !.failures = 0, !.successes = 0,
              !.halfOpenRequests = 0]

\* Variant of TimeoutPassed that lets the open period end at once.
TimeoutPassedAlways(b, t) == TRUE
\* canExecute line 108: time.Since(cb.lastFailure) > cb.config.Timeout
TimeoutPassed(b, t) == t - b.lastFailure > b.config.Timeout

\* CircuitBreaker.canExecute: the verdict and the breaker after it.
canExecute(b, t) ==
    CASE b.state = StateClosed -> [ok |-> TRUE, cb |-> b]
      [] b.state = StateOpen ->
            IF TimeoutPassed(b, t) THEN [ok |-> TRUE, cb |-> toHalfOpen(b)]
            ELSE [ok |-> FALSE, cb |-> b]
      [] b.state = StateHalfOpen ->
            IF b.halfOpenRequests < b.config.HalfOpenRequests
            THEN [ok |-> TRUE, cb |-> [b EXCEPT !.halfOpenRequests = @ + 1]]
            ELSE [ok |-> FALSE, cb |-> b]
      [] OTHER -> [ok |-> FALSE, cb |-> b]

\* Variant of onFailure that opens one failure late.
onFailureLate(b, t) ==
    LET c == [b EXCEPT !.failures = @ + 1, !.lastFailure = t] IN
    CASE b.state = StateClosed ->
            IF c.failures > c.config.MaxFailures THEN toOpen(c) ELSE c
      [] b.state = StateHalfOpen -> toOpen(c)
      [] OTHER -> c

\* CircuitBreaker.onFailure
onFailure(b, t) ==
    LET c == [b EXCEPT !.failures = @ + 1, !.lastFailure = t] IN
    CASE b.state = StateClosed ->
            IF c.failures >= c.config.MaxFailures THEN toOpen(c) ELSE c
      [] b.state = StateHalfOpen -> toOpen(c)
      [] OTHER -> c

\* Variant of onSuccess that closes on the first half-open success.
onSuccessEager(b) ==
    CASE b.state = StateClosed -> [b EXCEPT !.failures = 0]
      [] b.state = StateHalfOpen -> toClosed(b)
      [] OTHER -> b

\* CircuitBreaker.onSuccess
onSuccess(b) ==
    CASE b.state = StateClosed -> [b EXCEPT !.failures = 0]
      [] b.state = StateHalfOpen ->
            LET c == [b EXCEPT !.successes = @ + 1] IN
            IF c.successes >= c.config.HalfOpenRequests THEN toClosed(c) ELSE c
      [] OTHER -> b

\* CircuitBreaker.recordResult
recordResult(b, failed, t) == IF failed THEN onFailure(b, t) ELSE onSuccess(b)

NoCbOp == [op |-> "New", caller |-> 0, admitted |-> FALSE, failed |-> FALSE, at |-> 0,
           streak |-> 0, trialSucc |-> 0]
NoCbHist == [streak |-> 0, trials |-> 0, trialSucc |-> 0]

\* circuitbreaker.DefaultConfig
DefaultConfig == [MaxFailures |-> 5, HalfOpenRequests |-> 3, Timeout |-> 30]

\* A breaker constructed with one of the given configurations.
CbInitWith(configs) ==
    /\ cb \in {New(c) : c \in configs}
    /\ cbPre = cb
    /\ cbCall = [p \in Callers |-> "idle"]
    /\ cbOp = NoCbOp
    /\ cbHist = NoCbHist

\* A breaker constructed with any configuration of Configs.
CbInit == CbInitWith(Configs)

\* cbHist after a step from breaker b to breaker c: streak counts the failures
\* recorded in closed since the last success recorded there, trials the calls
\* admitted since the breaker last became half-open (the call that made it
\* half-open included), trialSucc the successes recorded since then.
HistAfter(b, c, op, admitted, failed) ==
    [streak |->
        IF c.state # StateClosed \/ b.state # StateClosed THEN 0
        ELSE IF op = "record" THEN (IF failed THEN cbHist.streak + 1 ELSE 0)
        ELSE cbHist.streak,
     trials |->
        IF c.state # StateHalfOpen THEN 0
        ELSE IF b.state # StateHalfOpen THEN 1
        ELSE IF op = "execute" /\ admitted THEN cbHist.trials + 1
        ELSE cbHist.trials,
     trialSucc |->
        IF c.state # StateHalfOpen \/ b.state # StateHalfOpen THEN 0
        ELSE IF op = "record" /\ ~failed THEN cbHist.trialSucc + 1
        ELSE cbHist.trialSucc]

\* Execute lines 82-88: canExecute; a rejected call returns ErrCircuitOpen
\* without calling fn, an admitted call goes on to fn.
CbExecute(p) ==
    LET r == canExecute(cb, now) IN
    /\ cbCall[p] = "idle"
    /\ cb' = r.cb
    /\ cbPre' = cb
    /\ cbCall' = [cbCall EXCEPT ![p] = IF r.ok THEN "fn" ELSE "idle"]
    /\ cbOp' = [op |-> "execute", caller |-> p, admitted |-> r.ok, failed |-> FALSE,
                at |-> now, streak |-> cbHist.streak, trialSucc |-> cbHist.trialSucc]
    /\ cbHist' = HistAfter(cb, r.cb, "execute", r.ok, FALSE)
    /\ UNCHANGED <<alertVars, busVars, svcVars, hubVars, retryVars, dlqVars, lifeVars, pageVars, clientVars, regVars, connVars>>

\* Execute lines 90-94: fn returns and recordResult records its result.
CbRecord(p, failed) ==
    LET c == recordResult(cb, failed, now) IN
    /\ cbCall[p] = "fn"
    /\ cb' = c
    /\ cbPre' = cb
    /\ cbCall' = [cbCall EXCEPT ![p] = "idle"]
    /\ cbOp' = [op |-> "record", caller |-> p, admitted |-> TRUE, failed |-> failed,
                at |-> now, streak |-> cbHist.streak, trialSucc |-> cbHist.trialSucc]
    /\ cbHist' = HistAfter(cb, c, "record", TRUE, failed)
    /\ UNCHANGED <<alertVars, busVars, svcVars, hubVars, retryVars, dlqVars, lifeVars, pageVars, clientVars, regVars, connVars>>

\* Time passes for the breaker.
CbTick ==
    /\ now < MaxCbTime
    /\ now' = now + 1
    /\ UNCHANGED <<alert, lastOp, busVars, svcVars, cbVars, hubVars, retryVars, dlqVars, lifeVars, pageVars, clientVars, regVars, connVars>>

CbNext ==
    \/ \E p \in Callers : CbExecute(p)
    \/ \E p \in Callers, failed \in BOOLEAN : CbRecord(p, failed)
    \/ CbTick

(***************************************************************************)
(* WebSocket hub.  Hub.Broadcast puts a message on the broadcast channel;  *)
(* the coordinator loop (Hub.Run) takes one message at a time and calls    *)
(* Client.Send for every registered client; a client's write pump takes    *)
(* the messages off its send channel.  Broadcast messages are numbered     *)
(* 1, 2, ... in the order they enter the broadcast channel.                *)
(***************************************************************************)
SendBuffer == 256           \* NewClient: send: make(chan []byte, 256)
BroadcastBuffer == 256      \* NewHub: broadcast: make(chan []byte, 256)
Stalled == "c1"             \* a client whose connection accepts nothing: its write pump never receives
Reading == "c2"             \* a client whose write pump runs
Clients == {Stalled, Reading}

\* NewClient
NewClient == [send |-> <<>>, closed |-> FALSE]

\* Variant of Send that drops the message on a full buffer and keeps the client open.
SendDropOnly(c, message) ==
    IF c.closed THEN c
    ELSE IF Len(c.send) < SendBuffer THEN [c EXCEPT !.send = Append(@, message)]
    ELSE c

\* Client.Send: non-blocking enqueue; on a full buffer the client is marked
\* closed and its send channel is closed (what it holds stays readable).
Send(c, message) ==
    IF c.closed THEN c
    ELSE IF Len(c.send) < SendBuffer THEN [c EXCEPT !.send = Append(@, message)]
    ELSE [c EXCEPT !.closed = TRUE]

\* Client.Close
Close(c) == IF c.closed THEN c ELSE [c EXCEPT !.closed = TRUE]

NoClientLog ==
    [attempts |-> 0, enq |-> 0, got |-> 0, inOrder |-> TRUE, drained |-> FALSE,
     fullAt |-> 0, closedBy |-> "none", closedEnq |-> 0, last |-> 0, ascending |-> TRUE]

\* NewHub: no client, empty broadcast channel.
HubInit ==
    /\ hubClients = {}
    /\ broadcast = <<>>
    /\ client = [c \in Clients |-> NewClient]
    /\ pump = [c \in Clients |-> "new"]
    /\ hubLog = [sent |-> 0, handled |-> 0]
    /\ clientLog = [c \in Clients |-> NoClientLog]

\* Hub.Register, handled by registerClient; the connection's pumps start.
\* Clients connect before the first broadcast.
HubRegister(c) ==
    /\ pump[c] = "new"
    /\ hubLog.sent = 0
    /\ hubClients' = hubClients \cup {c}
    /\ pump' = [pump EXCEPT ![c] = "recv"]
    /\ UNCHANGED <<broadcast, client, hubLog, clientLog, alertVars, busVars, svcVars, cbVars, retryVars, dlqVars, lifeVars, pageVars, clientVars, regVars, connVars>>

\* Hub.Broadcast: `h.broadcast <- data` waits while the channel is full.
\* Callers are paced: at most MaxPending messages wait in the channel and the
\* reading client's backlog is below MaxLag when a message is submitted.
HubBroadcast ==
    /\ hubLog.sent < MaxBroadcasts
    /\ Len(broadcast) < Min(BroadcastBuffer, MaxPending)
    /\ Len(client[Reading].send) < MaxLag
    /\ broadcast' = Append(broadcast, hubLog.sent + 1)
    /\ hubLog' = [hubLog EXCEPT !.sent = @ + 1]
    /\ UNCHANGED <<hubClients, client, pump, clientLog, alertVars, busVars, svcVars, cbVars, retryVars, dlqVars, lifeVars, pageVars, clientVars, regVars, connVars>>

\* Variant of BroadcastTargets: the coordinator skips the message when some
\* registered client has a full buffer.
BroadcastTargetsUnlessFull ==
    IF \E c \in hubClients : Len(client[c].send) = SendBuffer THEN {} ELSE hubClients
\* broadcastMessage: for client := range h.clients
BroadcastTargets == hubClients

\* clientLog after Send(message) on client c.
LogSend(c, message) ==
    LET old == client[c]
        new == Send(old, message)
        l == clientLog[c]
    IN [l EXCEPT !.attempts = @ + 1,
                 !.enq = IF Len(new.send) > Len(old.send) THEN @ + 1 ELSE @,
                 !.fullAt = IF ~old.closed /\ Len(old.send) = SendBuffer /\ @ = 0
                            THEN l.attempts + 1 ELSE @,
                 !.closedBy = IF ~old.closed /\ new.closed THEN "send" ELSE @,
                 !.closedEnq = IF ~old.closed /\ new.closed THEN l.enq ELSE @]

\* Variant of Receive that takes the newest message of the channel.
ReceiveNewest(ch) == [message |-> ch[Len(ch)], rest |-> SubSeq(ch, 1, Len(ch) - 1)]
\* A receive from a buffered channel takes the oldest message it holds.
Receive(ch) == [message |-> Head(ch), rest |-> Tail(ch)]

\* Hub.Run, case message := <-h.broadcast: broadcastMessage calls Send for
\* every registered client.
HubRunBroadcast ==
    /\ broadcast # <<>>
    /\ broadcast' = Receive(broadcast).rest
    /\ client' = [c \in Clients |->
                    IF c \in BroadcastTargets
                    THEN Send(client[c], Receive(broadcast).message)
                    ELSE client[c]]
    /\ clientLog' = [c \in Clients |->
                    IF c \in BroadcastTargets
                    THEN LogSend(c, Receive(broadcast).message)
                    ELSE clientLog[c]]
    /\ hubLog' = [hubLog EXCEPT !.handled = @ + 1]
    /\ UNCHANGED <<hubClients, pump, alertVars, busVars, svcVars, cbVars, retryVars, dlqVars, lifeVars, pageVars, clientVars, regVars, connVars>>

\* clientLog after the write pump has taken the messages ms off the channel
\* and written them to the connection in that order.
LogTaken(c, ms) ==
    [clientLog[c] EXCEPT
        !.got = @ + Len(ms),
        !.drained = TRUE,
        !.inOrder = @ /\ \A k \in 1..Len(ms) : ms[k] = clientLog[c].got + k,
        !.last = IF ms = <<>> THEN @ ELSE ms[Len(ms)],
        !.ascending = @ /\ \A k \in 1..Len(ms) :
                              ms[k] > (IF k = 1 THEN clientLog[c].last ELSE ms[k - 1])]

\* WritePump line 80: `message, ok := <-c.send`; on a closed and empty channel
\* the pump returns.
WritePumpReceive(c) ==
    /\ c = Reading
    /\ pump[c] = "recv"
    /\ IF client[c].send # <<>>
       THEN /\ client' = [client EXCEPT ![c].send = Tail(@)]
            /\ pump' = [pump EXCEPT ![c] = "more"]
            /\ clientLog' = [clientLog EXCEPT ![c] = LogTaken(c, <<Head(client[c].send)>>)]
       ELSE /\ client[c].closed
            /\ pump' = [pump EXCEPT ![c] = "exit"]
            /\ UNCHANGED <<client, clientLog>>
    /\ UNCHANGED <<hubClients, broadcast, hubLog, alertVars, busVars, svcVars, cbVars, retryVars, dlqVars, lifeVars, pageVars, clientVars, regVars, connVars>>

\* WritePump lines 93-97: n := len(c.send), then n more receives.
WritePumpMore(c) ==
    /\ pump[c] = "more"
    /\ client' = [client EXCEPT ![c].send = <<>>]
    /\ pump' = [pump EXCEPT ![c] = "recv"]
    /\ clientLog' = [clientLog EXCEPT ![c] = LogTaken(c, client[c].send)]
    /\ UNCHANGED <<hubClients, broadcast, hubLog, alertVars, busVars, svcVars, cbVars, retryVars, dlqVars, lifeVars, pageVars, clientVars, regVars, connVars>>

\* ReadPump's deferred exit: the connection ended; unregisterClient removes the
\* client and Close closes it.  Connections end only after the client was
\* dropped by Send.
HubUnregister(c) ==
    /\ c \in hubClients
    /\ client[c].closed
    /\ hubClients' = hubClients \ {c}
    /\ client' = [client EXCEPT ![c] = Close(@)]
    /\ clientLog' = [clientLog EXCEPT
            ![c].closedBy = IF client[c].closed THEN @ ELSE "close",
            ![c].closedEnq = IF client[c].closed THEN @ ELSE clientLog[c].enq]
    /\ UNCHANGED <<broadcast, pump, hubLog, alertVars, busVars, svcVars, cbVars, retryVars, dlqVars, lifeVars, pageVars, clientVars, regVars, connVars>>

HubNext ==
    \/ \E c \in Clients : HubRegister(c)
    \/ HubBroadcast
    \/ HubRunBroadcast
    \/ \E c \in Clients : WritePumpReceive(c)
    \/ \E c \in Clients : WritePumpMore(c)
    \/ \E c \in Clients : HubUnregister(c)

(***************************************************************************)
(* Dead-letter processor at the grain of its cache commands: dead-letter   *)
(* consumers of several processes run handleDeadLetter concurrently on the *)
(* same cache, and admin calls run RetryEvent.  The consumer loop that     *)
(* invokes the handler is abstracted to the delivery of a dead-letter      *)
(* event; the records, the index and the streams are those of the bus.     *)
(***************************************************************************)
\* Two processes of the service, each with a consumer of group dead-letter-processors.
DlHandlers == {"p1", "p2"}
AdminCalls == 1..MaxAdminCalls
OpRetry == "RetryEvent"
OpIgnore == "IgnoreEvent"
ErrCache == "cache error"
ErrPublish == "failed to publish event"

\* The event behind an id: its type, and the payload NewEvent marshalled.
TypeOf(id) == IF id = 1 THEN AlertCreated ELSE UserCreated
DeadLetterEvent(id) ==
    [id |-> id, type |-> TypeOf(id), payload |-> Marshaled, retries |-> MaxRetries]

\* handleDeadLetter lines 76-84: the FailedEvent as cacheRepo.Set encodes it.
NewFailedEvent(evt) ==
    [status |-> "pending", eventType |-> evt.type, payload |-> Compact(evt.payload),
     retries |-> evt.retries, processedAt |-> NoTime]

\* Variant of RetryCopy that keeps the retry counter of the record.
RetryCopyKeepRetries(id, rec) ==
    [id |-> id, type |-> rec.eventType, payload |-> rec.payload, retries |-> rec.retries]
\* RetryEvent lines 155-163: the fresh event built from the record.
RetryCopy(id, rec) ==
    [id |-> id, type |-> rec.eventType, payload |-> rec.payload, retries |-> 0]

IdleHandler == [pc |-> "idle", evt |-> IdleCons.evt, index |-> <<>>, clean |-> TRUE]
IdleAdmin ==
    [pc |-> "idle", op |-> "none", id |-> 0, rec |-> NoRecord, err |-> ErrNone,
     at |-> NoParent, stored |-> NoRecord]
NoDlqLog ==
    [delivered |-> 0, captures |-> {},
     lives |-> [i \in DlqIds |-> 1],
     lastWrite |-> [i \in DlqIds |-> "none"]]

DlqInit ==
    /\ dlh = [h \in DlHandlers |-> IdleHandler]
    /\ adm = [a \in AdminCalls |-> IdleAdmin]
    /\ dlqLog = NoDlqLog

\* The consumer loop of process h invokes handleDeadLetter for a dead-letter
\* entry of event id (the second process is the one that takes an entry while
\* the first is busy).  An event is dead-lettered once, and once more for
\* every copy RetryEvent republished.
DlqDeliver(h, id) ==
    /\ dlh[h].pc = "idle"
    /\ h = "p2" => dlh["p1"].pc # "idle"
    /\ dlqLog.delivered < MaxCaptures
    /\ dlqLog.lives[id] > 0
    /\ dlh' = [dlh EXCEPT ![h] = [IdleHandler EXCEPT !.pc = "set", !.evt = DeadLetterEvent(id)]]
    /\ dlqLog' = [dlqLog EXCEPT !.delivered = @ + 1, !.lives[id] = @ - 1]
    /\ UNCHANGED <<adm, alertVars, busVars, svcVars, cbVars, hubVars, retryVars, lifeVars, pageVars, clientVars, regVars, connVars>>

\* handleDeadLetter lines 87-91: cacheRepo.Set of the record; an error is returned.
DlqSetRecord(h, ok) ==
    LET evt == dlh[h].evt IN
    /\ dlh[h].pc = "set"
    /\ IF ok
       THEN /\ kv' = [kv EXCEPT ![evt.id] = NewFailedEvent(evt)]
            /\ dlh' = [dlh EXCEPT ![h].pc = "indexGet"]
            /\ dlqLog' = [dlqLog EXCEPT !.lastWrite[evt.id] = "capture"]
       ELSE /\ dlh' = [dlh EXCEPT ![h] = IdleHandler]
            /\ UNCHANGED <<kv, dlqLog>>
    /\ UNCHANGED <<adm, streams, lastId, pel, cons, nextPub, hist, msgLog, failedIndex,
                   alertVars, svcVars, cbVars, hubVars, retryVars, lifeVars, pageVars, clientVars, regVars, connVars>>

\* addToIndex lines 112-113: the index is read; the error of Get is dropped.
DlqIndexGet(h, ok) ==
    /\ dlh[h].pc = "indexGet"
    /\ dlh' = [dlh EXCEPT ![h].pc = "indexSet",
                          ![h].index = IF ok THEN failedIndex ELSE <<>>,
                          ![h].clean = ok]
    /\ UNCHANGED <<adm, dlqLog, alertVars, busVars, svcVars, cbVars, hubVars, retryVars, lifeVars, pageVars, clientVars, regVars, connVars>>

\* addToIndex lines 115-122 and handleDeadLetter lines 95-107: the extended
\* index is written back; an error is logged and the handler returns nil.
DlqIndexSet(h, ok) ==
    LET evt == dlh[h].evt IN
    /\ dlh[h].pc = "indexSet"
    /\ failedIndex' = IF ok THEN addToIndex(dlh[h].index, TRUE, evt.id) ELSE failedIndex
    /\ dlh' = [dlh EXCEPT ![h] = IdleHandler]
    /\ dlqLog' = [dlqLog EXCEPT
            !.captures = @ \cup {[id |-> evt.id, clean |-> dlh[h].clean /\ ok]}]
    /\ UNCHANGED <<adm, streams, lastId, pel, cons, nextPub, hist, msgLog, kv,
                   alertVars, svcVars, cbVars, hubVars, retryVars, lifeVars, pageVars, clientVars, regVars, connVars>>

\* An admin request calls RetryEvent(eventID); the operator issues the calls
\* one after the other.
AdmRetryEvent(a, id) ==
    /\ adm[a].pc = "idle"
    /\ a > 1 => adm[a - 1].pc = "done"
    /\ adm' = [adm EXCEPT ![a] = [IdleAdmin EXCEPT !.pc = "get", !.op = OpRetry, !.id = id]]
    /\ UNCHANGED <<dlh, dlqLog, alertVars, busVars, svcVars, cbVars, hubVars, retryVars, lifeVars, pageVars, clientVars, regVars, connVars>>

\* An admin request calls IgnoreEvent(eventID).
AdmIgnoreEvent(a, id) ==
    /\ adm[a].pc = "idle"
    /\ a > 1 => adm[a - 1].pc = "done"
    /\ adm' = [adm EXCEPT ![a] = [IdleAdmin EXCEPT !.pc = "get", !.op = OpIgnore, !.id = id]]
    /\ UNCHANGED <<dlh, dlqLog, alertVars, busVars, svcVars, cbVars, hubVars, retryVars, lifeVars, pageVars, clientVars, regVars, connVars>>

\* RetryEvent lines 148-152, IgnoreEvent lines 178-182: the record is loaded; a
\* miss or an error is returned.
AdmGet(a, ok) ==
    LET id == adm[a].id IN
    /\ adm[a].pc = "get"
    /\ adm' = IF ok /\ kv[id].status # "absent"
              THEN [adm EXCEPT ![a].pc = IF adm[a].op = OpRetry THEN "publish" ELSE "store",
                               ![a].rec = kv[id]]
              ELSE [adm EXCEPT ![a].pc = "done", ![a].err = ErrCache]
    /\ UNCHANGED <<dlh, dlqLog, alertVars, busVars, svcVars, cbVars, hubVars, retryVars, lifeVars, pageVars, clientVars, regVars, connVars>>

\* RetryEvent lines 155-168: p.bus.Publish of the fresh event; an error is returned.
AdmPublish(a, ok) ==
    LET evt == RetryCopy(adm[a].id, adm[a].rec)
        stream == getStreamForEventType(evt.type)
    IN /\ adm[a].pc = "publish"
       /\ IF ok
          THEN /\ XAdd(stream, Entry(ToMap(evt), evt.id, "dlq", NoParent, FALSE))
               /\ msgLog' = [msgLog EXCEPT ![stream] = Append(@, NoLog)]
               /\ adm' = [adm EXCEPT ![a].pc = "store",
                                     ![a].at = [stream |-> stream,
                                                idx |-> Len(streams[stream]) + 1]]
          ELSE /\ adm' = [adm EXCEPT ![a].pc = "done", ![a].err = ErrPublish, ![a].rec = NoRecord]
               /\ UNCHANGED <<streams, msgLog>>
       /\ dlqLog' = IF ok THEN [dlqLog EXCEPT !.lives[evt.id] = @ + 1] ELSE dlqLog
       /\ UNCHANGED <<dlh, lastId, pel, cons, nextPub, hist, kv, failedIndex,
                      alertVars, svcVars, cbVars, hubVars, retryVars, lifeVars, pageVars, clientVars, regVars, connVars>>

\* RetryEvent lines 170-174, IgnoreEvent lines 184-187: the loaded record is
\* written back as retried, or as ignored.
AdmStore(a, ok) ==
    LET id == adm[a].id
        rec == [adm[a].rec EXCEPT
                   !.status = IF adm[a].op = OpRetry THEN "retried" ELSE "ignored",
                   !.processedAt = now]
    IN /\ adm[a].pc = "store"
       /\ IF ok
          THEN /\ kv' = [kv EXCEPT ![id] = rec]
               /\ adm' = [adm EXCEPT ![a].pc = "done", ![a].stored = rec, ![a].rec = NoRecord]
               /\ dlqLog' = [dlqLog EXCEPT !.lastWrite[id] = "admin"]
          ELSE /\ adm' = [adm EXCEPT ![a].pc = "done", ![a].err = ErrCache, ![a].rec = NoRecord]
               /\ UNCHANGED <<kv, dlqLog>>
       /\ UNCHANGED <<dlh, streams, lastId, pel, cons, nextPub, hist, msgLog, failedIndex,
                      alertVars, svcVars, cbVars, hubVars, retryVars, lifeVars, pageVars, clientVars, regVars, connVars>>

DlqNext ==
    \/ \E h \in DlHandlers, id \in DlqIds : DlqDeliver(h, id)
    \/ \E h \in DlHandlers, ok \in BOOLEAN : DlqSetRecord(h, ok)
    \/ \E h \in DlHandlers, ok \in BOOLEAN : DlqIndexGet(h, ok)
    \/ \E h \in DlHandlers, ok \in BOOLEAN : DlqIndexSet(h, ok)
    \/ \E a \in AdminCalls, id \in DlqIds : AdmRetryEvent(a, id)
    \/ \E a \in AdminCalls, ok \in BOOLEAN : AdmGet(a, ok)
    \/ \E a \in AdminCalls, ok \in BOOLEAN : AdmPublish(a, ok)
    \/ \E a \in AdminCalls, ok \in BOOLEAN : AdmStore(a, ok)

\* The dead-letter processor with both admin operations.
DlqAdminNext ==
    \/ DlqNext
    \/ \E a \in AdminCalls, id \in DlqIds : AdmIgnoreEvent(a, id)

\* GetFailedEvents lines 133-141 after a successful read of the index: the
\* records of the ids of the index, in its order; an id whose record cannot be
\* read is skipped.
RECURSIVE GetFailedEvents(_, _)
GetFailedEvents(index, records) ==
    IF index = <<>> THEN <<>>
    ELSE LET eventID == Head(index)
             rest == GetFailedEvents(Tail(index), records)
         IN IF records[eventID].status = "absent" THEN rest
            ELSE <<[id |-> eventID, rec |-> records[eventID]]>> \o rest

(***************************************************************************)
(* Retries.Do: one call of the retry wrapper around an operation fn(ctx).  *)
(* ctx holds ctx.Err(): ErrNone while the caller's scope is live.  The     *)
(* operation may return nil, an error of its own, or a context error (of   *)
(* the caller's scope or of a scope derived inside the operation).  Every  *)
(* backoff is positive, so a scope that is already done when the sleep     *)
(* starts wins the select.                                                 *)
(***************************************************************************)
ErrTransient == "transient failure"
ContextCanceled == "context canceled"
ContextDeadlineExceeded == "context deadline exceeded"
ContextErrors == {ContextCanceled, ContextDeadlineExceeded}
FnResults == {ErrNone, ErrTransient} \cup ContextErrors

RetryConfigs == [MaxRetries : 0..MaxRetryCfg]
\* DefaultRetryConfig
DefaultRetryConfig == [MaxRetries |-> 3]

\* IsRetryable
IsRetryable(err) ==
    IF err = ErrNone THEN FALSE
    ELSE IF err \in ContextErrors THEN FALSE
    ELSE TRUE

\* NewRetries, before Do is called
NewRetries(config) ==
    [config |-> config, pc |-> "idle", attempt |-> 0, lastErr |-> ErrNone, result |-> ErrNone]

NoRtLog == [errs |-> <<>>, waits |-> 0, cancelled |-> FALSE,
            sleepCancel |-> [set |-> FALSE, calls |-> 0, err |-> ErrNone]]

RetryInitWith(configs) ==
    /\ rt \in {NewRetries(c) : c \in configs}
    /\ ctx = ErrNone
    /\ rtLog = NoRtLog

RetryInit == RetryInitWith(RetryConfigs)

\* Variant of MoreAttempts that allows one attempt more.
MoreAttemptsExtra(config, attempt) == attempt <= config.MaxRetries + 1
\* Do line 53: attempt <= r.config.MaxRetries
MoreAttempts(config, attempt) == attempt <= config.MaxRetries

\* Do lines 53-67 and 89-95: the head of the loop for r.attempt.  The first
\* attempt calls the operation at once, a later one sleeps first; after the
\* last attempt Do returns lastErr.
DoLoop(r) ==
    IF MoreAttempts(r.config, r.attempt)
    THEN [r EXCEPT !.pc = IF r.attempt > 0 THEN "sleep" ELSE "call"]
    ELSE [r EXCEPT !.pc = "done", !.result = r.lastErr]

\* Variant of SleepCancelErr that returns the operation's last error.
SleepCancelErrLast(lastErr, ctxErr) == lastErr
\* Do lines 63-64: return ctx.Err()
SleepCancelErr(lastErr, ctxErr) == ctxErr

\* Number of invocations of the operation so far.
Invoked == Len(rtLog.errs) + (IF rt.pc = "call" THEN 1 ELSE 0)

\* Retries.Do is called.
RetryDo ==
    /\ rt.pc = "idle"
    /\ rt' = DoLoop([rt EXCEPT !.attempt = 0, !.lastErr = ErrNone])
    /\ UNCHANGED <<ctx, rtLog, alertVars, busVars, svcVars, cbVars, hubVars, dlqVars, lifeVars, pageVars, clientVars, regVars, connVars>>

\* Do line 65: the backoff elapses while the scope is live.
RetryBackoffElapsed ==
    /\ rt.pc = "sleep"
    /\ ctx = ErrNone
    /\ rt' = [rt EXCEPT !.pc = "call"]
    /\ rtLog' = [rtLog EXCEPT !.waits = @ + 1]
    /\ UNCHANGED <<ctx, alertVars, busVars, svcVars, cbVars, hubVars, dlqVars, lifeVars, pageVars, clientVars, regVars, connVars>>

\* Do lines 63-64: the scope is done during the sleep.
RetryBackoffCancelled ==
    /\ rt.pc = "sleep"
    /\ ctx # ErrNone
    /\ rt' = [rt EXCEPT !.pc = "done", !.result = SleepCancelErr(rt.lastErr, ctx)]
    /\ rtLog' = [rtLog EXCEPT !.cancelled = TRUE]
    /\ UNCHANGED <<ctx, alertVars, busVars, svcVars, cbVars, hubVars, dlqVars, lifeVars, pageVars, clientVars, regVars, connVars>>

\* Do lines 69-87: the operation returns err.
RetryFnReturns(err) ==
    /\ rt.pc = "call"
    /\ rt' = IF err = ErrNone
             THEN [rt EXCEPT !.pc = "done", !.result = ErrNone]
             ELSE DoLoop([rt EXCEPT !.lastErr = err, !.attempt = @ + 1])
    /\ rtLog' = [rtLog EXCEPT !.errs = Append(@, err)]
    /\ UNCHANGED <<ctx, alertVars, busVars, svcVars, cbVars, hubVars, dlqVars, lifeVars, pageVars, clientVars, regVars, connVars>>

\* The caller's scope is cancelled or its deadline passes.
CtxDone(err) ==
    /\ ctx = ErrNone
    /\ rt.pc # "done"
    /\ ctx' = err
    /\ rtLog' = [rtLog EXCEPT !.sleepCancel =
                    IF rt.pc = "sleep"
                    THEN [set |-> TRUE, calls |-> Len(rtLog.errs), err |-> err]
                    ELSE @]
    /\ UNCHANGED <<rt, alertVars, busVars, svcVars, cbVars, hubVars, dlqVars, lifeVars, pageVars, clientVars, regVars, connVars>>

\* The steps Do takes by itself once called.
RetryProgress ==
    \/ RetryBackoffElapsed
    \/ RetryBackoffCancelled
    \/ \E err \in FnResults : RetryFnReturns(err)

RetryNext ==
    \/ RetryDo
    \/ RetryBackoffElapsed
    \/ RetryBackoffCancelled
    \/ \E err \in FnResults : RetryFnReturns(err)
    \/ \E err \in ContextErrors : CtxDone(err)

(***************************************************************************)
(* Worker lifecycle: EventWorker and DeadLetterProcessor Start/Stop,       *)
(* RedisStreamBus.Subscribe / consume / Unsubscribe.  The main goroutine   *)
(* makes the Start and Stop calls one after the other; the consumer loops  *)
(* run concurrently with it.                                               *)
(***************************************************************************)
NoLifeLog ==
    [stops |-> [w \in Workers |-> 0], first |-> [w \in Workers |-> "none"],
     second |-> [w \in Workers |-> "none"], lateReads |-> [c \in Consumers |-> 0],
     unsubReturned |-> FALSE, runningAtReturn |-> {}]

\* started = TRUE: both workers' Start has returned nil (README lines 430-439).
LifeInitWith(started) ==
    /\ stopCh = "open"
    /\ wg = IF started THEN Cardinality(Consumers) ELSE 0
    /\ wctx = [w \in Workers |-> "live"]
    /\ loop = [c \in Consumers |-> IF started THEN "running" ELSE "none"]
    /\ stopper = [pc |-> "idle", worker |-> "none"]
    /\ panicked = FALSE
    /\ lifeLog = NoLifeLog
LifeInit == LifeInitWith(TRUE)

\* The process is running and the main goroutine is between calls.
MainIdle == ~panicked /\ stopper.pc = "idle"

\* Start of the worker that owns loop c: Subscribe creates the group (which
\* may fail, and then Start returns the error), wg.Add(1), go consume.
WorkerStart(c, ok) ==
    /\ MainIdle
    /\ loop[c] = "none"
    /\ IF ok
       THEN /\ wg' = wg + 1
            /\ loop' = [loop EXCEPT ![c] = "running"]
       ELSE UNCHANGED <<wg, loop>>
    /\ UNCHANGED <<stopCh, wctx, stopper, panicked, lifeLog>>
    /\ UNCHANGED <<alertVars, busVars, svcVars, cbVars, hubVars, retryVars, dlqVars, pageVars, clientVars, regVars, connVars>>

\* The state a Stop call leaves behind, as its caller can observe it.
StoppedState(w, ch, cx) == <<cx[w], ch>>
LogStop(w, ch, cx) ==
    [lifeLog EXCEPT !.stops[w] = @ + 1,
                    !.first[w] = IF lifeLog.stops[w] = 0 THEN StoppedState(w, ch, cx) ELSE @,
                    !.second[w] = IF lifeLog.stops[w] = 1 THEN StoppedState(w, ch, cx) ELSE @]

\* DeadLetterProcessor.Stop: p.cancel(), return nil.
DeadLetterStop ==
    LET cx == [wctx EXCEPT ![DeadLetterProcessor] = "cancelled"] IN
    /\ MainIdle
    /\ lifeLog.stops[DeadLetterProcessor] < MaxStops
    /\ wctx' = cx
    /\ loop' = Mark(stopCh, cx)
    /\ lifeLog' = LogStop(DeadLetterProcessor, stopCh, cx)
    /\ UNCHANGED <<stopCh, wg, stopper, panicked>>
    /\ UNCHANGED <<alertVars, busVars, svcVars, cbVars, hubVars, retryVars, dlqVars, pageVars, clientVars, regVars, connVars>>

\* EventWorker.Stop line 249: w.cancel(), then the call of bus.Unsubscribe.
EventWorkerStop ==
    LET cx == [wctx EXCEPT ![EventWorker] = "cancelled"] IN
    /\ MainIdle
    /\ lifeLog.stops[EventWorker] < MaxStops
    /\ wctx' = cx
    /\ loop' = Mark(stopCh, cx)
    /\ stopper' = [pc |-> "close", worker |-> EventWorker]
    /\ UNCHANGED <<stopCh, wg, panicked, lifeLog>>
    /\ UNCHANGED <<alertVars, busVars, svcVars, cbVars, hubVars, retryVars, dlqVars, pageVars, clientVars, regVars, connVars>>

\* close(b.stopCh): closing a closed channel panics.
CloseOutcome(ch) == IF ch = "closed" THEN "panic" ELSE "closed"

\* Unsubscribe line 167.
UnsubscribeClose ==
    /\ ~panicked
    /\ stopper.pc = "close"
    /\ IF CloseOutcome(stopCh) = "panic"
       THEN /\ panicked' = TRUE
            /\ UNCHANGED <<stopCh, loop, stopper>>
       ELSE /\ stopCh' = "closed"
            /\ loop' = Mark("closed", wctx)
            /\ stopper' = [stopper EXCEPT !.pc = "wait"]
            /\ UNCHANGED panicked
    /\ UNCHANGED <<wg, wctx, lifeLog>>
    /\ UNCHANGED <<alertVars, busVars, svcVars, cbVars, hubVars, retryVars, dlqVars, pageVars, clientVars, regVars, connVars>>

\* Variant of WaitDone that does not wait for the consumer loops.
WaitDoneAtOnce == TRUE
\* b.wg.Wait() returns when the counter is zero.
WaitDone == wg = 0

\* Unsubscribe lines 168-169 and EventWorker.Stop's return.
UnsubscribeReturn ==
    /\ ~panicked
    /\ stopper.pc = "wait"
    /\ WaitDone
    /\ stopper' = [pc |-> "idle", worker |-> "none"]
    /\ lifeLog' = [LogStop(EventWorker, stopCh, wctx)
                      EXCEPT !.unsubReturned = TRUE,
                             !.runningAtReturn =
                                 IF lifeLog.unsubReturned THEN @
                                 ELSE {c \in Consumers : loop[c] \in {"running", "window"}}]
    /\ UNCHANGED <<stopCh, wg, wctx, loop, panicked>>
    /\ UNCHANGED <<alertVars, busVars, svcVars, cbVars, hubVars, retryVars, dlqVars, pageVars, clientVars, regVars, connVars>>

\* consume lines 85-89 and the deferred wg.Done(): the select finds stopCh
\* closed or the context done.
ConsumeExit(c) ==
    /\ ~panicked
    /\ loop[c] \in {"running", "window"}
    /\ cons[c].pc = "idle"
    /\ Signalled(c, stopCh, wctx)
    /\ loop' = [loop EXCEPT ![c] = "exited"]
    /\ wg' = wg - 1
    /\ UNCHANGED <<stopCh, wctx, stopper, panicked, lifeLog>>
    /\ UNCHANGED <<alertVars, busVars, svcVars, cbVars, hubVars, retryVars, dlqVars, pageVars, clientVars, regVars, connVars>>

\* What a consumer loop does on its own.
ConsumerStep(c) ==
    \/ ReadMessages(c)
    \/ ParseMessage(c)
    \/ \E failed \in BOOLEAN : HandleAlertEvent(c, failed)
    \/ HandleDeadLetter(c, TRUE, TRUE, TRUE)
    \/ \E ok \in BOOLEAN : HandleFailedEvent(c, ok)
    \/ AcknowledgeMessage(c)
    \/ NextMessage(c)
    \/ ConsumeExit(c)

\* The traffic of a lifecycle run: alert.created events whose XADD succeeds,
\* handlers that succeed or fail, a dead-letter handler whose cache commands
\* succeed.  Once the process has panicked nothing runs.
LifeNext ==
    \/ \E c \in Consumers, ok \in BOOLEAN : WorkerStart(c, ok)
    \/ DeadLetterStop
    \/ EventWorkerStop
    \/ UnsubscribeClose
    \/ UnsubscribeReturn
    \/ \E c \in Consumers : ConsumeExit(c)
    \/ ~panicked /\ Publish(AlertCreated, TRUE)
    \/ \E c \in Consumers : ~panicked /\ ReadMessages(c)
    \/ \E c \in Consumers : ~panicked /\ ParseMessage(c)
    \/ \E c \in Consumers, failed \in BOOLEAN : ~panicked /\ HandleAlertEvent(c, failed)
    \/ \E c \in Consumers : ~panicked /\ HandleDeadLetter(c, TRUE, TRUE, TRUE)
    \/ \E c \in Consumers, ok \in BOOLEAN : ~panicked /\ HandleFailedEvent(c, ok)
    \/ \E c \in Consumers : ~panicked /\ AcknowledgeMessage(c)
    \/ \E c \in Consumers : ~panicked /\ NextMessage(c)

(***************************************************************************)
(* AlertService.Create end to end: the service call, the producer's        *)
(* publication on the bus, and the consumer loops.                         *)
(***************************************************************************)
\* A Create request; call p makes publication p.
CreateBegin(p) ==
    /\ p \in PubIds
    /\ SvcBegin(p, CmdCreate, NoUser)

\* AlertProducer.PublishAlertCreated called by Create lines 115-117:
\* event.NewEvent, then bus.Publish through the retrying wrapper; ok is the
\* wrapper's result.  An error is logged and Create goes on to return the alert.
CreatePublish(p, ok) ==
    LET evt == [id |-> p, type |-> AlertCreated, payload |-> Marshaled, retries |-> 0]
        stream == getStreamForEventType(AlertCreated)
    IN /\ proc[p].pc = "bus"
       /\ proc[p].cmd = CmdCreate
       /\ proc' = [proc EXCEPT ![p].pc = "done", ![p].err = FanoutErr(@, ok)]
       /\ svcLog' = LogStep(p, "bus", ok)
       /\ nextPub' = nextPub + 1
       /\ IF ok
          THEN /\ XAdd(stream, Entry(ToMap(evt), p, "publish", NoParent, FALSE))
               /\ msgLog' = [msgLog EXCEPT ![stream] = Append(@, NoLog)]
               /\ hist' = [hist EXCEPT ![p].published = TRUE]
          ELSE UNCHANGED <<streams, msgLog, hist>>
       /\ UNCHANGED <<store, exists, others, writes, cache, statsEntry>>
       /\ UNCHANGED <<lastId, pel, cons, kv, failedIndex>>
       /\ UNCHANGED <<alertVars, cbVars, hubVars, retryVars, dlqVars, lifeVars, pageVars, clientVars, regVars, connVars>>

\* The steps of Create itself.
CreateSteps ==
    \/ \E p \in Calls, ok \in BOOLEAN : SvcCreate(p, ok)
    \/ \E p \in Calls, ok \in BOOLEAN : SvcCacheDelete(p, ok)
    \/ \E p \in Calls, ok \in BOOLEAN : SvcWsPublish(p, ok)
    \/ \E p \in Calls, ok \in BOOLEAN : CreatePublish(p, ok)

CreateNext ==
    \/ \E p \in Calls : CreateBegin(p)
    \/ \E p \in Calls, ok \in BOOLEAN : SvcCreate(p, ok)
    \/ \E p \in Calls, ok \in BOOLEAN : SvcCacheDelete(p, ok)
    \/ \E p \in Calls, ok \in BOOLEAN : SvcWsPublish(p, ok)
    \/ \E p \in Calls, ok \in BOOLEAN : CreatePublish(p, ok)
    \/ \E c \in Consumers : ReadMessages(c)
    \/ \E c \in Consumers : ParseMessage(c)
    \/ \E c \in Consumers, failed \in BOOLEAN : HandleAlertEvent(c, failed)
    \/ \E c \in Consumers : HandleDeadLetter(c, TRUE, TRUE, TRUE)
    \/ \E c \in Consumers, ok \in BOOLEAN : HandleFailedEvent(c, ok)
    \/ \E c \in Consumers : AcknowledgeMessage(c)
    \/ \E c \in Consumers : NextMessage(c)

(***************************************************************************)
(* Pagination value object.  Go's int is a machine word: arithmetic wraps  *)
(* modulo 2^IntBits (two's complement).                                    *)
(***************************************************************************)
DefaultPage == 1
DefaultPageSize == 20
MaxPageSize == 100
MinPageSize == 1

IntMod == 2 ^ IntBits
IntMin == 0 - (IntMod \div 2)
IntMax == (IntMod \div 2) - 1
Ints == IntMin..IntMax
\* The value of an int expression whose mathematical result is x.
Wrap(x) == ((x - IntMin) % IntMod) + IntMin

\* Pagination.normalize: the three tests in the order of the code.
normalize(p) ==
    LET p1 == IF p.page < 1 THEN [p EXCEPT !.page = DefaultPage] ELSE p
        p2 == IF p1.pageSize < MinPageSize THEN [p1 EXCEPT !.pageSize = DefaultPageSize] ELSE p1
    IN IF p2.pageSize > MaxPageSize THEN [p2 EXCEPT !.pageSize = MaxPageSize] ELSE p2

\* NewPagination
NewPagination(page, pageSize) == normalize([page |-> page, pageSize |-> pageSize])

\* Pagination.Offset: (p.page - 1) * p.pageSize in int arithmetic.
Offset(p) == Wrap(Wrap(p.page - 1) * p.pageSize)

\* Pagination.TotalPages (totalItems is an int64 and is not negative here).
TotalPages(p, totalItems) ==
    IF totalItems = 0 THEN 0
    ELSE LET pages == totalItems \div p.pageSize
         IN IF totalItems % p.pageSize > 0 THEN pages + 1 ELSE pages

\* The page sizes of the unit tests and of the documentation, and their neighbours.
PageSizes == {IntMin, -5, 0, 1, 2, 20, 50, 99, 100, 101, 500, IntMax}

PageInput(page, pageSize, k, extra) ==
    [pc |-> "input", inPage |-> page, inSize |-> pageSize, k |-> k, extra |-> extra,
     p |-> [page |-> DefaultPage, pageSize |-> DefaultPageSize],
     offset |-> 0, items |-> 0, totalPages |-> 0]

\* DefaultPagination, no request made.
NoPage == [PageInput(DefaultPage, DefaultPageSize, 0, 0) EXCEPT !.pc = "done"]
PageInit == pg = NoPage
\* A request's page and page_size parameters, and the size of the table.
PageRequests(pages) ==
    {PageInput(page, pageSize, k, extra) :
        page \in pages, pageSize \in PageSizes, k \in 0..MaxItems, extra \in 0..1}

\* NewPagination on the request's parameters.
PageNew ==
    /\ pg.pc = "input"
    /\ pg' = [pg EXCEPT !.pc = "made", !.p = NewPagination(pg.inPage, pg.inSize)]
    /\ UNCHANGED <<alertVars, busVars, svcVars, cbVars, hubVars, retryVars, dlqVars, lifeVars, clientVars, regVars, connVars>>

\* Offset and TotalPages on the value made.
PageQuery ==
    LET n == pg.k * pg.p.pageSize + pg.extra IN
    /\ pg.pc = "made"
    /\ pg' = [pg EXCEPT !.pc = "done", !.offset = Offset(pg.p), !.items = n,
                        !.totalPages = TotalPages(pg.p, n)]
    /\ UNCHANGED <<alertVars, busVars, svcVars, cbVars, hubVars, retryVars, dlqVars, lifeVars, clientVars, regVars, connVars>>

PageNext ==
    \/ PageNew
    \/ PageQuery

(***************************************************************************)
(* One Client under concurrent Send and Close.  Each call locks c.mu,      *)
(* reads c.closed, acts, and unlocks (the deferred Unlock).                *)
(***************************************************************************)
Coordinator == "Hub.Run"            \* broadcastMessage
DirectCaller == "BroadcastToUser"   \* BroadcastToUser / BroadcastToRole
ReadPump == "ReadPump"              \* handleMessage's replies, then the deferred Close
WritePump == "WritePump"            \* the deferred Close
ClientCallers == {Coordinator, DirectCaller, ReadPump, WritePump}
OpSend == "Send"
OpClose == "Close"
\* What a goroutine may call next: the pumps end with their Close.
OpsOf(k) ==
    CASE k = WritePump -> {OpClose}
      [] k = ReadPump -> {OpSend, OpClose}
      [] OTHER -> {OpSend}

ClientInit ==
    cli = [c |-> NewClient, mu |-> "free",
           pc |-> [k \in ClientCallers |-> "idle"],
           op |-> [k \in ClientCallers |-> "none"],
           seen |-> [k \in ClientCallers |-> FALSE],
           log |-> [closes |-> 0, late |-> 0, repeatChanged |-> FALSE, closeCalls |-> 0]]

\* Variant of MuFree: the lock is never taken to be held.
MuFreeAlways == TRUE
\* c.mu.Lock() returns when no goroutine holds the mutex.
MuFree == cli.mu = "free"

\* A call of Send or Close begins.
ClientCall(k, op) ==
    /\ cli.pc[k] = "idle"
    /\ op \in OpsOf(k)
    /\ cli' = [cli EXCEPT !.pc[k] = "lock", !.op[k] = op]
    /\ UNCHANGED <<alertVars, busVars, svcVars, cbVars, hubVars, retryVars, dlqVars, lifeVars, pageVars, regVars, connVars>>

\* Send line 114 / Close line 131: c.mu.Lock()
ClientLock(k) ==
    /\ cli.pc[k] = "lock"
    /\ MuFree
    /\ cli' = [cli EXCEPT !.pc[k] = "check", !.mu = k]
    /\ UNCHANGED <<alertVars, busVars, svcVars, cbVars, hubVars, retryVars, dlqVars, lifeVars, pageVars, regVars, connVars>>

\* Send line 117 / Close line 134: if c.closed
ClientCheck(k) ==
    /\ cli.pc[k] = "check"
    /\ cli' = [cli EXCEPT !.pc[k] = "act", !.seen[k] = cli.c.closed]
    /\ UNCHANGED <<alertVars, busVars, svcVars, cbVars, hubVars, retryVars, dlqVars, lifeVars, pageVars, regVars, connVars>>

\* Send lines 121-126 / Close lines 138-140, on the flag the call has read.
ClientAct(k) ==
    LET asRead == [cli.c EXCEPT !.closed = cli.seen[k]]
        made == IF cli.op[k] = OpSend THEN Send(asRead, 0) ELSE Close(asRead)
        new == [made EXCEPT !.closed = @ \/ cli.c.closed]
    IN /\ cli.pc[k] = "act"
       /\ cli' = [cli EXCEPT
                    !.pc[k] = "unlock",
                    !.c = new,
                    !.log.closes = IF made.closed /\ ~cli.seen[k] THEN @ + 1 ELSE @,
                    !.log.late = IF cli.c.closed /\ Len(made.send) > Len(cli.c.send)
                                 THEN @ + 1 ELSE @,
                    !.log.closeCalls = IF cli.op[k] = OpClose /\ @ < 2 THEN @ + 1 ELSE @,
                    !.log.repeatChanged = @ \/ (cli.op[k] = OpClose /\ cli.c.closed /\ new # cli.c)]
       /\ UNCHANGED <<alertVars, busVars, svcVars, cbVars, hubVars, retryVars, dlqVars, lifeVars, pageVars, regVars, connVars>>

\* The deferred c.mu.Unlock(); a pump that has called Close is finished.
ClientUnlock(k) ==
    /\ cli.pc[k] = "unlock"
    /\ cli' = [cli EXCEPT !.pc[k] = IF cli.op[k] = OpClose THEN "done" ELSE "idle",
                          !.mu = IF @ = k THEN "free" ELSE @]
    /\ UNCHANGED <<alertVars, busVars, svcVars, cbVars, hubVars, retryVars, dlqVars, lifeVars, pageVars, regVars, connVars>>

ClientNext ==
    \/ \E k \in ClientCallers, op \in {OpSend, OpClose} : ClientCall(k, op)
    \/ \E k \in ClientCallers : ClientLock(k)
    \/ \E k \in ClientCallers : ClientCheck(k)
    \/ \E k \in ClientCallers : ClientAct(k)
    \/ \E k \in ClientCallers : ClientUnlock(k)

(***************************************************************************)
(* Circuit breaker Registry.  A breaker instance is identified by the      *)
(* number of its creation; 0 stands for "no entry".                        *)
(***************************************************************************)
RegCalls == 1..MaxRegCalls
BreakerNames == {"redis", "postgres"}
OpGet == "Get"
OpGetWithConfig == "GetWithConfig"
NoBreaker == [id |-> 0, by |-> "none"]
IdleRegCall == [pc |-> "idle", op |-> "none", name |-> "none", cb |-> NoBreaker, ret |-> NoBreaker]

\* NewRegistry
RegInit ==
    reg = [breakers |-> [n \in BreakerNames |-> NoBreaker],
           readers |-> {}, writer |-> 0, created |-> 0,
           made |-> [n \in BreakerNames |-> 0],
           call |-> [k \in RegCalls |-> IdleRegCall]]

\* A call of Get(name) or GetWithConfig(config) begins.
RegCall(k, op, name) ==
    /\ reg.call[k].pc = "idle"
    /\ k > 1 => reg.call[k - 1].pc # "idle"
    /\ reg' = [reg EXCEPT !.call[k] = [IdleRegCall EXCEPT !.pc = "rlock", !.op = op, !.name = name]]
    /\ UNCHANGED <<alertVars, busVars, svcVars, cbVars, hubVars, retryVars, dlqVars, lifeVars, pageVars, clientVars, connVars>>

\* Lines 20-21: r.mu.RLock() (no writer holds the lock), then the map read.
RegRLockRead(k) ==
    /\ reg.call[k].pc = "rlock"
    /\ reg.writer = 0
    /\ reg' = [reg EXCEPT !.readers = @ \cup {k},
                          !.call[k].cb = reg.breakers[reg.call[k].name],
                          !.call[k].pc = "runlock"]
    /\ UNCHANGED <<alertVars, busVars, svcVars, cbVars, hubVars, retryVars, dlqVars, lifeVars, pageVars, clientVars, connVars>>

\* Lines 22-26: r.mu.RUnlock(); an entry found is returned.
RegRUnlock(k) ==
    LET c == reg.call[k] IN
    /\ c.pc = "runlock"
    /\ reg' = [reg EXCEPT !.readers = @ \ {k},
                          !.call[k].pc = IF c.cb.id # 0 THEN "done" ELSE "lock",
                          !.call[k].ret = c.cb]
    /\ UNCHANGED <<alertVars, busVars, svcVars, cbVars, hubVars, retryVars, dlqVars, lifeVars, pageVars, clientVars, connVars>>

\* Line 28: r.mu.Lock() waits for the readers and the writer to leave.
RegLock(k) ==
    /\ reg.call[k].pc = "lock"
    /\ reg.writer = 0 /\ reg.readers = {}
    /\ reg' = [reg EXCEPT !.writer = k, !.call[k].pc = "check"]
    /\ UNCHANGED <<alertVars, busVars, svcVars, cbVars, hubVars, retryVars, dlqVars, lifeVars, pageVars, clientVars, connVars>>

\* Variant of DoubleCheck that trusts the first read.
DoubleCheckSkipped(breakers, c) == c.cb
\* Lines 31-34: the entry is read again under the write lock.
DoubleCheck(breakers, c) == breakers[c.name]

\* Lines 32-38 and the deferred Unlock: return the entry found, or create the
\* breaker (New(DefaultConfig(name)) or New(config)), store and return it.
RegCheckCreate(k) ==
    LET c == reg.call[k]
        found == DoubleCheck(reg.breakers, c)
        fresh == [id |-> reg.created + 1, by |-> c.op]
    IN /\ c.pc = "check"
       /\ reg' = IF found.id # 0
                 THEN [reg EXCEPT !.writer = 0, !.call[k].pc = "done", !.call[k].ret = found]
                 ELSE [reg EXCEPT !.writer = 0, !.call[k].pc = "done", !.call[k].ret = fresh,
                                  !.breakers[c.name] = fresh,
                                  !.created = @ + 1,
                                  !.made[c.name] = @ + 1]
       /\ UNCHANGED <<alertVars, busVars, svcVars, cbVars, hubVars, retryVars, dlqVars, lifeVars, pageVars, clientVars, connVars>>

RegNext ==
    \/ \E k \in RegCalls, op \in {OpGet, OpGetWithConfig}, name \in BreakerNames : RegCall(k, op, name)
    \/ \E k \in RegCalls : RegRLockRead(k)
    \/ \E k \in RegCalls : RegRUnlock(k)
    \/ \E k \in RegCalls : RegLock(k)
    \/ \E k \in RegCalls : RegCheckCreate(k)

(***************************************************************************)
(* A WebSocket connection end to end: Handler.Handle starts WritePump and  *)
(* runs ReadPump on each connection.  The write pump of the stalled client *)
(* is blocked in a write on the socket until the write deadline passes or  *)
(* the peer reads again; the read pump is blocked in conn.ReadMessage,     *)
(* whose deadline is pushed back pongWait by every pong, and pongs answer  *)
(* the pings that only the write pump sends.                               *)
(***************************************************************************)
\* Handler.Handle: the read pump of every connection starts in ReadMessage on
\* an open socket.
ConnInit == conn = [c \in Clients |-> [rp |-> "read", open |-> TRUE]]

\* The socket after Client.Close on client c: Close closes it unless the client
\* is already marked closed (Close lines 134-140).
CloseConn(c) == IF client[c].closed THEN conn[c].open ELSE FALSE

\* WritePump lines 87-101 with the deferred Close (73-76): the write on the
\* stalled socket fails when the write deadline (writeWait) passes, and the
\* pump returns.  The burst that fills the buffer is shorter than writeWait:
\* the deadline passes after Send has dropped the client.
WriteDeadline(c) ==
    /\ c = Stalled
    /\ pump[c] = "recv"
    /\ client[c].closed
    /\ pump' = [pump EXCEPT ![c] = "exit"]
    /\ client' = [client EXCEPT ![c] = Close(@)]
    /\ conn' = [conn EXCEPT ![c].open = CloseConn(c)]
    /\ clientLog' = [clientLog EXCEPT
            ![c].closedBy = IF client[c].closed THEN @ ELSE "close",
            ![c].closedEnq = IF client[c].closed THEN @ ELSE clientLog[c].enq]
    /\ UNCHANGED <<hubClients, broadcast, hubLog, alertVars, busVars, svcVars, cbVars, retryVars, dlqVars, lifeVars, pageVars, clientVars, regVars>>

\* WritePump lines 80-84 with the deferred Close: the peer reads again, the
\* pump writes what the closed channel still holds, then receives !ok, writes
\* the close frame and returns; Close finds the client closed and returns.
WritePumpSeesClosed(c) ==
    /\ c = Stalled
    /\ pump[c] = "recv"
    /\ client[c].closed
    /\ pump' = [pump EXCEPT ![c] = "exit"]
    /\ client' = [client EXCEPT ![c].send = <<>>]
    /\ UNCHANGED <<hubClients, broadcast, hubLog, clientLog, conn, alertVars, busVars, svcVars, cbVars, retryVars, dlqVars, lifeVars, pageVars, clientVars, regVars>>

\* Variant of ReadFails in which reads fail only on a socket the server closed.
ReadFailsOnClosedConn(c) == ~conn[c].open
\* ReadPump line 59: ReadMessage returns an error on a socket the server
\* closed, and when the read deadline passes, which it does once the write
\* pump has returned: no ping is sent any more, so no pong moves the deadline.
ReadFails(c) == ~conn[c].open \/ pump[c] = "exit"

\* ReadPump lines 59-65: ReadMessage fails and the loop breaks.
ReadPumpError(c) ==
    /\ pump[c] # "new"
    /\ conn[c].rp = "read"
    /\ ReadFails(c)
    /\ conn' = [conn EXCEPT ![c].rp = "unregister"]
    /\ UNCHANGED <<hubVars, alertVars, busVars, svcVars, cbVars, retryVars, dlqVars, lifeVars, pageVars, clientVars, regVars>>

\* ReadPump line 47 and Hub.Run lines 52-53: the coordinator takes the client
\* off the unregister channel and unregisterClient removes it.
ReadPumpUnregister(c) ==
    /\ conn[c].rp = "unregister"
    /\ hubClients' = hubClients \ {c}
    /\ conn' = [conn EXCEPT ![c].rp = "close"]
    /\ UNCHANGED <<broadcast, client, pump, hubLog, clientLog, alertVars, busVars, svcVars, cbVars, retryVars, dlqVars, lifeVars, pageVars, clientVars, regVars>>

\* ReadPump line 48: c.Close().
ReadPumpClose(c) ==
    /\ conn[c].rp = "close"
    /\ client' = [client EXCEPT ![c] = Close(@)]
    /\ conn' = [conn EXCEPT ![c].rp = "done", ![c].open = CloseConn(c)]
    /\ clientLog' = [clientLog EXCEPT
            ![c].closedBy = IF client[c].closed THEN @ ELSE "close",
            ![c].closedEnq = IF client[c].closed THEN @ ELSE clientLog[c].enq]
    /\ UNCHANGED <<hubClients, broadcast, pump, hubLog, alertVars, busVars, svcVars, cbVars, retryVars, dlqVars, lifeVars, pageVars, clientVars, regVars>>

\* The steps the pumps of client c take by themselves.
PumpStep(c) ==
    \/ WritePumpReceive(c)
    \/ WritePumpMore(c)
    \/ WriteDeadline(c)
    \/ WritePumpSeesClosed(c)
    \/ ReadPumpError(c)
    \/ ReadPumpUnregister(c)
    \/ ReadPumpClose(c)

DropNext ==
    \/ \E c \in Clients : HubRegister(c)
    \/ HubBroadcast
    \/ HubRunBroadcast
    \/ \E c \in Clients : WritePumpReceive(c)
    \/ \E c \in Clients : WritePumpMore(c)
    \/ \E c \in Clients : WriteDeadline(c)
    \/ \E c \in Clients : WritePumpSeesClosed(c)
    \/ \E c \in Clients : ReadPumpError(c)
    \/ \E c \in Clients : ReadPumpUnregister(c)
    \/ \E c \in Clients : ReadPumpClose(c)

Init ==
    /\ AlertInit /\ BusInit /\ SvcInit /\ CbInitWith({DefaultConfig}) /\ HubInit /\ DlqInit /\ LifeInit /\ PageInit /\ ClientInit /\ RegInit /\ ConnInit
    /\ RetryInitWith({DefaultRetryConfig})
\* The same construction with the breaker's configuration drawn from Configs.
InitBreaker ==
    /\ AlertInit /\ BusInit /\ SvcInit /\ CbInit /\ HubInit /\ DlqInit /\ LifeInit /\ PageInit /\ ClientInit /\ RegInit /\ ConnInit
    /\ RetryInitWith({DefaultRetryConfig})
\* The same construction with the retry configuration drawn from RetryConfigs.
InitRetry ==
    /\ AlertInit /\ BusInit /\ SvcInit /\ CbInitWith({DefaultConfig}) /\ HubInit /\ DlqInit /\ LifeInit /\ PageInit /\ ClientInit /\ RegInit /\ ConnInit
    /\ RetryInit

SpecAlert == Init /\ [][AlertNext]_vars
SpecBus == Init /\ [][BusNext]_vars
SpecStream == Init /\ [][StreamNext]_vars
SpecEnvelope == Init /\ [][EnvelopeNext]_vars
SpecSvc == Init /\ [][SvcNext]_vars
SpecSvcSeq == Init /\ [][SvcSeqNext]_vars
SpecStats == Init /\ [][StatsNext]_vars
SpecBreaker == InitBreaker /\ [][CbNext]_vars
SpecHub == Init /\ [][HubNext]_vars
\* Goroutines are scheduled and deadlines pass: every pump takes its steps.
SpecDropFair == Init /\ [][DropNext]_vars /\ \A c \in Clients : WF_vars(PumpStep(c))
SpecDlq == Init /\ [][DlqNext]_vars
SpecDlqAdmin == Init /\ [][DlqAdminNext]_vars
\* The workers start unstarted: Start and Stop are calls of the run.
InitLife ==
    /\ AlertInit /\ BusInit /\ SvcInit /\ CbInitWith({DefaultConfig}) /\ HubInit /\ DlqInit
    /\ RetryInitWith({DefaultRetryConfig}) /\ LifeInitWith(FALSE) /\ PageInit /\ ClientInit /\ RegInit /\ ConnInit
\* The same construction with a pagination request drawn from PageRequests(Ints).
InitPage ==
    /\ AlertInit /\ BusInit /\ SvcInit /\ CbInitWith({DefaultConfig}) /\ HubInit /\ DlqInit
    /\ RetryInitWith({DefaultRetryConfig}) /\ LifeInit /\ pg \in PageRequests(Ints) /\ ClientInit /\ RegInit /\ ConnInit
SpecPage == InitPage /\ [][PageNext]_vars
SpecClient == Init /\ [][ClientNext]_vars
SpecRegistry == Init /\ [][RegNext]_vars
SpecLife == InitLife /\ [][LifeNext]_vars
\* Goroutines are scheduled and commands return: Create's own steps and every
\* consumer loop's steps are taken.
SpecCreateFair ==
    /\ Init /\ [][CreateNext]_vars
    /\ WF_vars(CreateSteps)
    /\ \A c \in Consumers : WF_vars(ConsumerStep(c))
\* Goroutines are scheduled and Redis commands return: every consumer loop
\* and the main goroutine's Unsubscribe take their steps.
SpecLifeFair ==
    /\ InitLife /\ [][LifeNext]_vars
    /\ \A c \in Consumers : WF_vars(~panicked /\ ConsumerStep(c))
    /\ WF_vars(UnsubscribeClose \/ UnsubscribeReturn)
SpecRetry == InitRetry /\ [][RetryNext]_vars
\* The operation returns and timers fire: Do's own steps are taken.
SpecRetryFair == InitRetry /\ [][RetryNext]_vars /\ WF_vars(RetryProgress)

(***************************************************************************)
(* Claims about the Alert Service.                                         *)
(***************************************************************************)
Done(p) == proc[p].pc = "done"
Succeeded(p) == Done(p) /\ proc[p].err = ErrNone
Rejected(p) ==
    Done(p) /\ proc[p].err \in {ErrAlertAlreadyAcknowledged, ErrAlertAlreadyResolved}
NoEffect(p) ==
    /\ ~svcLog[p].updated
    /\ ~svcLog[p].cacheDel
    /\ ~svcLog[p].ws
    /\ ~svcLog[p].bus

\* C9 (SpecSvcSeq): run one after the other, an Acknowledge that follows a
\* successful Acknowledge returns AlreadyAcknowledged and a Resolve that follows a
\* successful Resolve returns AlreadyResolved; the rejected command performs no
\* Store update, no cache invalidation and no fan-out, and acknowledged_by /
\* resolved_by stay those of the command that succeeded.
C9_SecondCommandRejected ==
    /\ \A p \in Calls : \A q \in Calls :
          (q = p + 1 /\ Succeeded(p) /\ Done(q) /\ proc[q].cmd = proc[p].cmd
             /\ proc[p].cmd \in {CmdAcknowledge, CmdResolve}
             /\ proc[q].err # ErrStore)
            => proc[q].err = IF proc[p].cmd = CmdAcknowledge
                             THEN ErrAlertAlreadyAcknowledged
                             ELSE ErrAlertAlreadyResolved
    /\ \A q \in Calls : Rejected(q) => NoEffect(q)
    /\ \A p \in Calls :
          /\ (Succeeded(p) /\ proc[p].cmd = CmdAcknowledge)
                => store.acknowledgedBy = proc[p].user
          /\ (Succeeded(p) /\ proc[p].cmd = CmdResolve)
                => store.resolvedBy = proc[p].user

C9_Witness ==
    \E p \in Calls : \E q \in Calls :
        /\ q = p + 1
        /\ Succeeded(p) /\ proc[p].cmd = CmdAcknowledge
        /\ Rejected(q) /\ proc[q].cmd = CmdAcknowledge
        /\ proc[q].user # proc[p].user
        /\ store.acknowledgedBy = proc[p].user
        /\ cache = FALSE

FanOut == <<"store", "cache", "ws", "bus">>
IsPrefix(s, t) == Len(s) <= Len(t) /\ \A k \in 1..Len(s) : s[k] = t[k]
WriteFailed(p) == svcLog[p].storeErr # ErrNone

\* C11: when the Store write (Create, Update or Delete) of a lifecycle command
\* fails, the command returns that error (Delete returns the Store's not-found
\* as ErrAlertNotFound) and performs no later step: no deletion of stats:alerts,
\* no Hub broadcast, no bus publish.
C11_WriteFailureAborts ==
    \A p \in Calls :
        WriteFailed(p) =>
            /\ proc[p].cmd \in Mutations
            /\ Done(p)
            /\ proc[p].err = IF proc[p].cmd = CmdDelete THEN DeleteErr(svcLog[p].storeErr)
                             ELSE svcLog[p].storeErr
            /\ ~svcLog[p].updated
            /\ NoEffect(p)
            /\ svcLog[p].trace = <<>>

C11_Witness ==
    \E p \in Calls : \E q \in Calls :
        /\ proc[p].cmd = CmdCreate /\ svcLog[p].storeErr = ErrStore /\ Done(p)
        /\ proc[q].cmd = CmdDelete /\ svcLog[q].storeErr = ErrStore /\ Done(q)
        /\ cache

HoldsWriteOf(p) ==
    CASE proc[p].cmd = CmdCreate -> p \in others
      [] proc[p].cmd = CmdDelete -> ~exists
      [] OTHER -> exists /\ store = proc[p].local

\* C13: once the Store write of a lifecycle command has succeeded the command's
\* result is success, whatever the fan-out steps did (failed cache deletion,
\* dropped Hub message, failed bus publish), and the Store is not rolled back:
\* a row inserted by Create stays, and until another command writes the Store
\* it holds what this command wrote.
C13_FanOutNeverFails ==
    \A p \in Calls :
        svcLog[p].updated =>
            /\ proc[p].err = ErrNone
            /\ proc[p].pc \in {"cache", "ws", "bus", "done"}
            /\ svcLog[p].ver <= Len(writes)
            /\ svcLog[p].ver = Len(writes) => HoldsWriteOf(p)
            /\ proc[p].cmd = CmdCreate => p \in others

C13_Witness ==
    \E p \in Calls :
        /\ proc[p].cmd = CmdResolve
        /\ Succeeded(p)
        /\ svcLog[p].fanFailed
        /\ svcLog[p].ver = Len(writes)
        /\ store.status = AlertStatusResolved
        /\ cache /\ statsEntry.stats.ver < svcLog[p].ver


\* C14 (as stated, SpecStats): under any interleaving of GetStatistics calls and
\* mutations, statistics read from the Store before a mutation succeeded are not
\* readable under stats:alerts later than StatsTTL after that mutation: an entry
\* older than the Store expires at most StatsTTL after the first write it misses.
C14_StaleStatsExpire ==
    (CachePresent /\ statsEntry.stats.ver < Len(writes))
        => statsEntry.exp <= writes[statsEntry.stats.ver + 1] + StatsTTL

\* The transitions of the state machine a command may make.
Allowed(cmd, from, to) ==
    IF cmd = CmdAcknowledge
    THEN from = AlertStatusActive /\ to = AlertStatusAcknowledged
    ELSE from \in {AlertStatusActive, AlertStatusAcknowledged} /\ to = AlertStatusResolved

\* C10 (as stated, SpecSvc): under any interleaving, the change each successful
\* command's Update makes to the Store is a transition the state machine allows
\* from the status the Store held immediately before that Update; a stored
\* resolved alert is never written back to acknowledged.
C10_UpdatesFollowStateMachine ==
    \A p \in Calls :
        (svcLog[p].updated /\ proc[p].cmd \in {CmdAcknowledge, CmdResolve})
            => Allowed(proc[p].cmd, svcLog[p].pre, svcLog[p].post)

(***************************************************************************)
(* Claims about the circuit breaker (checked under SpecBreaker).  cbPre is *)
(* the breaker before the last step, cb the breaker after it, cbOp the     *)
(* step.                                                                   *)
(***************************************************************************)
Executed == cbOp.op = "execute"
Recorded == cbOp.op = "record"
InOpenPeriod == ~(cbOp.at - cbPre.lastFailure > cb.config.Timeout)

\* C15: while closed the failure counter is the number of failures recorded
\* since the last recorded success (a success resets it to 0) and is below
\* maxFailures; a recorded result moves closed to open exactly when it is the
\* failure that brings that count to maxFailures; no Execute moves the breaker
\* out of closed; and an Execute that finds the breaker open before the timeout
\* has elapsed is rejected without calling the wrapped function.
C15_OpensAtMaxFailures ==
    /\ cb.state = StateClosed =>
          /\ cb.failures = cbHist.streak
          /\ cb.failures < cb.config.MaxFailures
    /\ (cbPre.state = StateClosed /\ Recorded) =>
          /\ cb.state \in {StateClosed, StateOpen}
          /\ cb.state = StateOpen
                <=> (cbOp.failed /\ cbOp.streak + 1 = cb.config.MaxFailures)
          /\ ~cbOp.failed => cb.failures = 0
    /\ (cbPre.state = StateClosed /\ Executed) =>
          /\ cbOp.admitted
          /\ cb.state = StateClosed
    /\ (cbPre.state = StateOpen /\ Executed /\ InOpenPeriod) =>
          /\ ~cbOp.admitted
          /\ cbCall[cbOp.caller] = "idle"

C15_Witness ==
    /\ Executed
    /\ cbPre.state = StateOpen
    /\ ~cbOp.admitted
    /\ cb.config.MaxFailures = MaxCfg
    /\ cb.failures = cb.config.MaxFailures
    /\ \A p \in Callers : cbCall[p] = "idle"

\* C16: an Execute that finds the breaker open while the timeout has not
\* elapsed since lastFailure is rejected, does not call the wrapped function and
\* leaves every field of the breaker unchanged; the breaker leaves open only by
\* an Execute issued after the timeout has elapsed, which is admitted and moves
\* it to half-open.
C16_OpenRejects ==
    /\ (cbPre.state = StateOpen /\ Executed /\ InOpenPeriod) =>
          /\ ~cbOp.admitted
          /\ cb = cbPre
          /\ cbCall[cbOp.caller] = "idle"
    /\ (cbPre.state = StateOpen /\ cb.state # StateOpen) =>
          /\ Executed
          /\ cbOp.admitted
          /\ ~InOpenPeriod
          /\ cb.state = StateHalfOpen
          /\ cbCall[cbOp.caller] = "fn"

C16_Witness ==
    /\ Executed
    /\ cbPre.state = StateOpen
    /\ ~cbOp.admitted
    /\ cbOp.at = cbPre.lastFailure + cb.config.Timeout
    /\ cb = cbPre

\* C17 (as stated): counting from the call that makes the breaker half-open,
\* the calls admitted while it stays half-open never exceed halfOpenRequests.
C17_TrialsBounded ==
    cb.state = StateHalfOpen => cbHist.trials <= cb.config.HalfOpenRequests

\* C18: while half-open the success counter is the number of successes recorded
\* since the breaker became half-open and is below halfOpenRequests; a recorded
\* failure moves half-open to open; a recorded success moves it to closed
\* exactly when it is the halfOpenRequests-th; nothing else leaves half-open;
\* and on closing failures, successes and the trial-call counter are all 0.
C18_HalfOpenTransitions ==
    /\ cb.state = StateHalfOpen =>
          /\ cb.successes = cbHist.trialSucc
          /\ cb.successes < cb.config.HalfOpenRequests
    /\ (cbPre.state = StateHalfOpen /\ Recorded) =>
          /\ cbOp.failed => cb.state = StateOpen
          /\ ~cbOp.failed =>
                /\ cb.state \in {StateHalfOpen, StateClosed}
                /\ cb.state = StateClosed
                      <=> cbOp.trialSucc + 1 = cb.config.HalfOpenRequests
    /\ (cbPre.state = StateHalfOpen /\ Executed) => cb.state = StateHalfOpen
    /\ (cbPre.state = StateHalfOpen /\ cb.state = StateClosed) =>
          /\ cb.failures = 0
          /\ cb.successes = 0
          /\ cb.halfOpenRequests = 0

C18_Witness ==
    /\ cbPre.state = StateHalfOpen
    /\ cb.state = StateClosed
    /\ cb.config.HalfOpenRequests = MaxCfg
    /\ cbPre.halfOpenRequests > 0
    /\ cbPre.successes = MaxCfg - 1

(***************************************************************************)
(* Claims about the hub (checked under SpecHub).                           *)
(***************************************************************************)
\* The channel of client c holds consecutive messages, right after those its
\* write pump has taken.
Consecutive(c) ==
    \A k \in 1..Len(client[c].send) : client[c].send[k] = clientLog[c].got + k

\* C19: for every client, the Send that finds the buffer holding SendBuffer
\* (256) messages marks the client closed in that same Send; once a client is
\* closed nothing more is enqueued for it; and while a client's buffer has never
\* been drained its first 256 Sends are enqueued and the 257th marks it closed.
C19_FullBufferCloses ==
    \A c \in Clients :
        LET l == clientLog[c]
            k == client[c]
        IN /\ Len(k.send) <= SendBuffer
           /\ l.fullAt > 0 => (k.closed /\ l.closedBy = "send")
           /\ k.closed => l.enq = l.closedEnq
           /\ ~k.closed => l.enq = l.attempts
           /\ (~l.drained /\ l.attempts <= SendBuffer) =>
                 /\ ~k.closed
                 /\ Len(k.send) = l.attempts
                 /\ l.fullAt = 0
           /\ (~l.drained /\ l.attempts > SendBuffer) =>
                 /\ k.closed
                 /\ l.fullAt = SendBuffer + 1
                 /\ l.enq = SendBuffer
                 /\ Len(k.send) = SendBuffer

C19_Witness ==
    /\ ~clientLog[Stalled].drained
    /\ clientLog[Stalled].attempts = SendBuffer + 1
    /\ clientLog[Stalled].fullAt = SendBuffer + 1
    /\ client[Stalled].closed
    /\ Len(client[Stalled].send) = SendBuffer

\* C20: the coordinator's broadcast step is never held up by a client (it can
\* run whenever a message waits, whatever the clients' buffers hold), and every
\* registered client that has not been closed has been handed every broadcast
\* handled so far, once each and in order, also after another client was
\* dropped for a full buffer.
C20_OthersUnaffected ==
    /\ broadcast # <<>> => ENABLED HubRunBroadcast
    /\ \A c \in Clients : clientLog[c].inOrder /\ Consecutive(c)
    /\ \A c \in hubClients :
          ~client[c].closed => clientLog[c].got + Len(client[c].send) = hubLog.handled

C20_Witness ==
    /\ hubLog.handled = SendBuffer + 1
    /\ client[Stalled].closed
    /\ clientLog[Stalled].closedBy = "send"
    /\ Reading \in hubClients
    /\ ~client[Reading].closed
    /\ clientLog[Reading].got = SendBuffer + 1
    /\ clientLog[Reading].inOrder

\* C21: the coordinator handles the broadcasts in the order they entered the
\* broadcast channel (the k-th message waiting is the k-th to be handled next),
\* every client's send channel holds its messages in that order, all of them
\* later than the last one written to the client, and the messages written to a
\* client were written in that order.
C21_BroadcastOrder ==
    /\ \A k \in 1..Len(broadcast) : broadcast[k] = hubLog.handled + k
    /\ \A c \in Clients :
          /\ clientLog[c].ascending
          /\ \A k \in 1..Len(client[c].send) :
                client[c].send[k] >
                    (IF k = 1 THEN clientLog[c].last ELSE client[c].send[k - 1])

C21_Witness ==
    /\ Len(broadcast) = 2
    /\ clientLog[Reading].last >= 2
    /\ Len(client[Reading].send) >= 1
    /\ pump[Reading] = "more"

(***************************************************************************)
(* Claims about Retries.Do (checked under SpecRetry and SpecRetryFair).    *)
(***************************************************************************)
AllFailed == \A k \in 1..Len(rtLog.errs) : rtLog.errs[k] # ErrNone

DoBudget ==
    /\ Invoked <= rt.config.MaxRetries + 1
    /\ \A k \in 1..Len(rtLog.errs) :
          rtLog.errs[k] = ErrNone =>
              /\ k = Invoked
              /\ rt.pc = "done"
              /\ rt.result = ErrNone
    /\ Invoked > 0 => rtLog.waits = Invoked - 1
    /\ (rt.pc = "done" /\ AllFailed /\ ~rtLog.cancelled) =>
          /\ Invoked = rt.config.MaxRetries + 1
          /\ rt.result = rtLog.errs[Invoked]

\* C22: Do invokes the operation at most MaxRetries+1 times; a successful
\* attempt is the last one and makes Do return nil; one backoff was waited
\* before every attempt but the first; when every attempt failed and the sleep
\* was not cancelled, Do returns the error of the last of MaxRetries+1 attempts;
\* and a Do that was called eventually returns.
C22_DoTerminates == [](DoBudget) /\ ((rt.pc # "idle") ~> (rt.pc = "done"))

C22_Witness ==
    /\ rt.pc = "done"
    /\ rt.config.MaxRetries = 3
    /\ rtLog.errs = <<ErrTransient, ContextDeadlineExceeded, ErrTransient, ErrTransient>>
    /\ rtLog.waits = 3
    /\ rt.result = ErrTransient
    /\ ~rtLog.cancelled

\* C23: once the caller's scope was cancelled while Do waited in a backoff
\* sleep, the operation is not invoked again, the only step left to Do is the
\* return, and Do returns the scope's error.
C23_CancelAbortsSleep ==
    rtLog.sleepCancel.set =>
        /\ Invoked = rtLog.sleepCancel.calls
        /\ rt.pc \in {"sleep", "done"}
        /\ rt.pc = "sleep" => (ENABLED RetryBackoffCancelled /\ ~ENABLED RetryBackoffElapsed)
        /\ rt.pc = "done" =>
              /\ rt.result = rtLog.sleepCancel.err
              /\ rtLog.cancelled

C23_Witness ==
    /\ rtLog.sleepCancel.set
    /\ rt.pc = "done"
    /\ rt.lastErr = ErrTransient
    /\ rt.result = ContextCanceled
    /\ Invoked = 2

\* C24: an attempt that failed with context.Canceled or DeadlineExceeded is the
\* last invocation of the operation, and Do returns that error.
C24_CancellationNotRetried ==
    \A k \in 1..Len(rtLog.errs) :
        (rtLog.errs[k] # ErrNone /\ ~IsRetryable(rtLog.errs[k])) =>
            /\ k = Invoked
            /\ rt.pc = "done" => rt.result = rtLog.errs[k]

(***************************************************************************)
(* Claims about the dead-letter processor (checked under SpecDlq).         *)
(***************************************************************************)
\* The stream entries RetryEvent published for event id.
DlqEntries(id) ==
    {<<s, i>> \in Streams \X (1..(2 * MaxAdminCalls)) :
        /\ i <= Len(streams[s])
        /\ streams[s][i].origin = "dlq"
        /\ streams[s][i].values.id = id}
\* The RetryEvent calls for event id whose publish succeeded.
PublishedBy(id) == {a \in AdminCalls : adm[a].id = id /\ adm[a].at # NoParent}

\* C25: every RetryEvent whose publish succeeded put one entry on the stream of
\* the event's type, carrying the event's id, type and payload and retries 0;
\* a RetryEvent that returned nil stored the record with status retried and
\* processed_at set; the republished copies of an id are as many as the
\* RetryEvent calls that published it (two after two calls); and a record last
\* written by RetryEvent has status retried.
C25_RetryEventRepublishes ==
    /\ \A a \in AdminCalls :
          LET id == adm[a].id
              at == adm[a].at
          IN /\ at # NoParent =>
                   /\ at.stream = getStreamForEventType(TypeOf(id))
                   /\ streams[at.stream][at.idx].origin = "dlq"
                   /\ streams[at.stream][at.idx].values =
                         ToMap([DeadLetterEvent(id) EXCEPT !.retries = 0])
             /\ (adm[a].pc = "done" /\ adm[a].err = ErrNone) =>
                   /\ at # NoParent
                   /\ adm[a].stored.status = "retried"
                   /\ adm[a].stored.processedAt # NoTime
                   /\ adm[a].stored.eventType = TypeOf(id)
    /\ \A id \in DlqIds :
          /\ Cardinality(DlqEntries(id)) = Cardinality(PublishedBy(id))
          /\ dlqLog.lastWrite[id] = "admin" =>
                (kv[id].status = "retried" /\ kv[id].processedAt # NoTime)

C25_Witness ==
    /\ \A a \in 1..2 : adm[a].pc = "done" /\ adm[a].err = ErrNone /\ adm[a].id = 1
    /\ kv[1].status = "retried"
    /\ Cardinality(DlqEntries(1)) = 2
    /\ Len(streams[StreamAlerts]) = 2

\* C26: for every handleDeadLetter that returned nil with no cache command of
\* its own failing, the event's id is in failed_events:index unless the index
\* is full (and may have dropped it), and the record under failed_event:<id>,
\* while no admin call rewrote it, is pending with the event's retry count;
\* the index never holds more than IndexCap ids.
C26_CaptureIndexed ==
    /\ Len(failedIndex) <= IndexCap
    /\ \A c \in dlqLog.captures :
          c.clean =>
              /\ \/ \E j \in 1..Len(failedIndex) : failedIndex[j] = c.id
                 \/ Len(failedIndex) = IndexCap
              /\ dlqLog.lastWrite[c.id] = "capture" =>
                    kv[c.id] = NewFailedEvent(DeadLetterEvent(c.id))


(***************************************************************************)
(* Claims about the worker lifecycle (checked under SpecLife and           *)
(* SpecLifeFair).                                                          *)
(***************************************************************************)
\* C27: Stop is idempotent for every worker: a second EventWorker.Stop or
\* DeadLetterProcessor.Stop, in any order and after any Start, returns without
\* a crash and leaves the worker's context and the bus's stop channel as the
\* first call left them.
C27_StopIdempotent ==
    /\ ~panicked
    /\ \A w \in Workers : lifeLog.stops[w] >= 2 => lifeLog.second[w] = lifeLog.first[w]

\* No consumer loop is running when Unsubscribe returns, a loop reads at most
\* once after its stop signal, and nothing is in processing after the return.
UnsubscribeDrained ==
    /\ lifeLog.runningAtReturn = {}
    /\ \A c \in Consumers : lifeLog.lateReads[c] <= 1
    /\ lifeLog.unsubReturned => \A c \in Consumers : cons[c].pc = "idle"
\* After Unsubscribe returned no consumer loop takes a step: every read,
\* parse, handler call and acknowledgement moves cons.
QuietAfterReturn == lifeLog.unsubReturned => cons' = cons

\* C28: Unsubscribe terminates: once it is called on a bus whose stop channel
\* is open, every consumer loop finishes at most the read window that was open
\* and the processing of what that read returned, then exits; Unsubscribe
\* returns, and only after all loops have exited; after it has returned no
\* handler is invoked and no message is read or acknowledged.
C28_UnsubscribeTerminates ==
    /\ [](UnsubscribeDrained)
    /\ [][QuietAfterReturn]_vars
    /\ ((stopper.pc = "close" /\ stopCh = "open") ~> lifeLog.unsubReturned)
C28_Witness ==
    /\ lifeLog.unsubReturned
    /\ lifeLog.lateReads[AlertWorker] = 1
    /\ \A c \in Consumers : loop[c] = "exited"
    /\ Len(msgLog[StreamAlerts]) >= 1
    /\ msgLog[StreamAlerts][1].acks = 1


(***************************************************************************)
(* Claim about Create end to end (checked under SpecCreateFair).           *)
(***************************************************************************)
OnAlertsStream(p) ==
    \E i \in EntriesOf(StreamAlerts) :
        /\ streams[StreamAlerts][i].values.id = p
        /\ streams[StreamAlerts][i].values.type = AlertCreated
\* C30: every Create that returned success is eventually followed by an
\* alert.created event for the new alert on the alerts stream, and by a
\* consumer of group alert-processors handling it.
C30_CreateObserved ==
    \A p \in PubIds :
        (Succeeded(p) /\ proc[p].cmd = CmdCreate)
            ~> (OnAlertsStream(p) /\ DeliveredTo(p, GroupAlertProcessors))

(***************************************************************************)
(* Claim about Pagination (checked under SpecPage).                        *)
(***************************************************************************)
CeilDiv(n, size) == (n + size - 1) \div size
\* NewPagination's value is in range and keeps valid inputs; TotalPages is the
\* ceiling of the quotient.
PageNormalized ==
    pg.pc = "done" =>
    /\ pg.p.page >= 1
    /\ pg.p.pageSize >= 1 /\ pg.p.pageSize <= 100
    /\ pg.p.page = (IF pg.inPage < 1 THEN 1 ELSE pg.inPage)
    /\ pg.p.pageSize = (IF pg.inSize < 1 THEN 20 ELSE IF pg.inSize > 100 THEN 100 ELSE pg.inSize)
    /\ pg.totalPages = CeilDiv(pg.items, pg.p.pageSize)
    /\ pg.items = 0 => pg.totalPages = 0
\* C31: for all integer inputs NewPagination yields page >= 1 and
\* 1 <= page_size <= 100 (page < 1 becomes 1, page_size < 1 becomes 20,
\* page_size > 100 becomes 100, valid values are kept), and on the normalized
\* values Offset = (page - 1) * page_size and TotalPages(n) = ceil(n / page_size),
\* with TotalPages(0) = 0.
C31_Pagination ==
    /\ PageNormalized
    /\ pg.pc = "done" => pg.offset = (pg.p.page - 1) * pg.p.pageSize

(***************************************************************************)
(* Claim about one Client's Send and Close (checked under SpecClient).     *)
(***************************************************************************)
InCritical(k) == cli.pc[k] \in {"check", "act", "unlock"}
\* C32: under any interleaving of Send (from the coordinator, from
\* BroadcastToUser/BroadcastToRole callers and from the read pump) and Close
\* (from both pumps) on one client, no two calls are in their critical
\* sections together, the send channel is closed at most once, nothing is
\* enqueued on it after it is closed, and a Close on a closed client changes
\* nothing.
C32_SendCloseExclusive ==
    /\ \A j, k \in ClientCallers : InCritical(j) /\ InCritical(k) => j = k
    /\ cli.log.closes <= 1
    /\ cli.log.late = 0
    /\ ~cli.log.repeatChanged
    /\ Len(cli.c.send) <= SendBuffer
C32_Witness ==
    /\ cli.log.closes = 1
    /\ cli.log.closeCalls = 2
    /\ cli.pc[ReadPump] = "done" /\ cli.pc[WritePump] = "done"
    /\ Len(cli.c.send) = SendBuffer
    /\ cli.pc[Coordinator] = "unlock" /\ cli.seen[Coordinator]

(***************************************************************************)
(* Claim about the breaker Registry (checked under SpecRegistry).          *)
(***************************************************************************)
RegReturned(k) == reg.call[k].pc = "done"
\* C33: under any interleaving of concurrent Get / GetWithConfig calls at most
\* one breaker is created per name, and every call returns the breaker stored
\* in the registry under its name.
C33_OneBreakerPerName ==
    /\ \A n \in BreakerNames : reg.made[n] <= 1
    /\ \A k \in RegCalls :
          RegReturned(k) =>
              /\ reg.call[k].ret.id # 0
              /\ reg.call[k].ret = reg.breakers[reg.call[k].name]
C33_Witness ==
    /\ \A k \in RegCalls : RegReturned(k) /\ reg.call[k].name = "redis"
    /\ reg.call[1].op = OpGet /\ reg.call[2].op = OpGetWithConfig
    /\ reg.breakers["redis"].by = OpGetWithConfig
    /\ reg.made["redis"] = 1

(***************************************************************************)
(* Claim about producers choosing the stream (checked under SpecStream).   *)
(***************************************************************************)
\* C34: a failed event whose incremented retry counter is below 3 is
\* re-published to the stream the failing consumer read it from, whatever the
\* stream and the event type.
C34_RetryToOriginatingStream ==
    \A s \in Streams : \A i \in RetryEntries(s) :
        streams[s][i].values.retries < 3 => streams[s][i].from.stream = s

(***************************************************************************)
(* Claim about unparseable envelopes (checked under SpecEnvelope).         *)
(***************************************************************************)
Unparseable(values) == FromMapPanics(values) \/ ~FromMapOk(values)
ParseAttempted(s, i) == msgLog[s][i].outcome # NoLog.outcome

\* C35: a message whose envelope cannot be parsed (a key absent or not a string,
\* or a timestamp that does not parse) is dropped by the consumer loop: once the
\* parse has been attempted the handler was not invoked, nothing was appended for
\* it, the loop is still alive, and the message is acknowledged before the loop
\* moves on.
C35_UnparseableDropped ==
    \A s \in Subscribed : \A i \in EntriesOf(s) :
        (Unparseable(streams[s][i].values) /\ ParseAttempted(s, i)) =>
            /\ msgLog[s][i].outcome = "parsefail"
            /\ msgLog[s][i].copies = 0
            /\ ~panicked
            /\ ~InBatch(s, i) => msgLog[s][i].acks = 1

(***************************************************************************)
(* Claims about results recorded late and about the breaker's fields       *)
(* (checked under SpecBreaker).                                            *)
(***************************************************************************)
\* C37: a result recorded while the breaker is open (of a call admitted before
\* it opened) changes neither the state nor lastFailure.
C37_LateResultIgnored ==
    (cbPre.state = StateOpen /\ Recorded) =>
        /\ cb.state = StateOpen
        /\ cb.lastFailure = cbPre.lastFailure

\* C38: in every reachable state the state is closed, open or half-open; while
\* closed failures < maxFailures; while half-open successes < halfOpenRequests
\* and the trial-call counter is at most halfOpenRequests; while open successes
\* and the trial-call counter are 0; and no counter is negative.
C38_BreakerInvariant ==
    /\ cb.state \in {StateClosed, StateOpen, StateHalfOpen}
    /\ cb.state = StateClosed => cb.failures < cb.config.MaxFailures
    /\ cb.state = StateHalfOpen =>
          /\ cb.successes < cb.config.HalfOpenRequests
          /\ cb.halfOpenRequests <= cb.config.HalfOpenRequests
    /\ cb.state = StateOpen =>
          /\ cb.successes = 0
          /\ cb.halfOpenRequests = 0
    /\ cb.failures >= 0
    /\ cb.successes >= 0
    /\ cb.halfOpenRequests >= 0

\* A failure recorded in half-open, with the trial-call counter at its limit and
\* a success already counted, opens the breaker while another call is in flight.
C38_Witness ==
    /\ Recorded
    /\ cbPre.state = StateHalfOpen
    /\ cbPre.halfOpenRequests = cb.config.HalfOpenRequests
    /\ cbPre.successes > 0
    /\ cb.state = StateOpen
    /\ \E p \in Callers : cbCall[p] = "fn"

(***************************************************************************)
(* Claims about the admin operations and the index (checked under          *)
(* SpecDlqAdmin).                                                          *)
(***************************************************************************)
Returned(a) == adm[a].pc = "done"
\* No entry of a sequence occurs twice.
NoDuplicates(seq) == \A i, j \in 1..Len(seq) : seq[i] = seq[j] => i = j

\* C39: a RetryEvent or IgnoreEvent that returned an error changed nothing: it
\* published no event and wrote no record (after a publish error the record, if
\* a capture wrote it last, is still pending with processed_at unset); and
\* IgnoreEvent never publishes.
C39_FailureChangesNothing ==
    \A a \in AdminCalls :
        /\ (Returned(a) /\ adm[a].err # ErrNone) =>
              /\ adm[a].at = NoParent
              /\ adm[a].stored = NoRecord
              /\ (adm[a].err = ErrPublish /\ dlqLog.lastWrite[adm[a].id] = "capture") =>
                    /\ kv[adm[a].id].status = "pending"
                    /\ kv[adm[a].id].processedAt = NoTime
        /\ adm[a].op = OpIgnore => adm[a].at = NoParent

\* C40: failed_events:index holds each event id at most once, and
\* GetFailedEvents returns at most one record per event id.
C40_IndexWithoutDuplicates ==
    /\ NoDuplicates(failedIndex)
    /\ NoDuplicates([i \in 1..Len(GetFailedEvents(failedIndex, kv)) |->
                        GetFailedEvents(failedIndex, kv)[i].id])

(***************************************************************************)
(* Claim about dropped clients (checked under SpecDropFair).               *)
(***************************************************************************)
\* Send closed the outbound channel of client c on a full buffer.
Dropped(c) == clientLog[c].closedBy = "send"
\* The pumps of client c have returned and the hub no longer holds it.
Removed(c) == c \notin hubClients /\ pump[c] = "exit" /\ conn[c].rp \in {"close", "done"}

\* C36: a client dropped by Send on a full buffer is eventually removed from
\* the hub: its write pump returns, its read pump ends and unregisters it and
\* the number of registered clients goes down by one, with no further action
\* of the remote peer.
C36_DroppedEventuallyRemoved == \A c \in Clients : Dropped(c) ~> Removed(c)

\* The stalled client was dropped by Send and is gone, the other is still there.
C36_Witness ==
    /\ Dropped(Stalled)
    /\ Removed(Stalled)
    /\ conn[Stalled].rp = "done"
    /\ hubClients = {Reading}
    /\ hubLog.handled = SendBuffer + 1

====
